---------------------------- MODULE Spec2Model ----------------------------
(***************************************************************************)
(* A model of the real-time configuration of the MIDI sampler              *)
(* (src/src/realtime/sampler_rt.c, src/src/internal/internal_rt.h,         *)
(* src/voice_rt.c, src/src/realtime/envelope_rt.c).                        *)
(*                                                                         *)
(* Numbers.  The C code computes with float/double.  The model keeps every *)
(* such quantity as an integer numerator over a fixed denominator:         *)
(*   - envelope levels and coefficients over ONE      (1.0f  = ONE)        *)
(*   - playback position, speed, pitch-bend factor over SPEED_ONE          *)
(*   - envelope times in units of 1/TIME_DEN second                        *)
(*   - velocity gain as velocity over 127                                  *)
(* Pointers are modelled by identities: an instrument by its id (NULL = 0),*)
(* a sample by the pair (owning instrument, index in its sample array).    *)
(***************************************************************************)
EXTENDS Integers, Sequences, FiniteSets, TLC

(***************************************************************************)
(* Program constants.  The pool size and the queue size keep the source's  *)
(* names; the model is explored with a pool and a ring far shorter than    *)
(* the source's 64 and 256 (every formula below is stated in terms of the  *)
(* names, never of the numbers).                                           *)
(***************************************************************************)
MS_MAX_VOICES == 2

RT_EVENT_QUEUE_SIZE == 3

ENV_SAMPLE_RATE == 44100

TIME_DEN == 44100

ONE == 12

SPEED_ONE == 1000

(***************************************************************************)
(* Bounds of the exploration.                                              *)
(***************************************************************************)
MaxCalls == 4

MaxPushes == 4

MaxFrames == 2

NULL == 0

InstIds == {1, 2}

\* the block lengths a render call is given
FrameCounts == {0, 2}

VoiceIdx == 0..(MS_MAX_VOICES - 1)

SlotIdx == 0..(RT_EVENT_QUEUE_SIZE - 1)

Notes == {60, 72}

Velocities == {100}

BendValues == {0, -8192}

Min(a, b) == IF a < b THEN a ELSE b

Abs(x) == IF x < 0 THEN -x ELSE x

(***************************************************************************)
(* Envelope generator (envelope_rt.c, internal_rt.h).                      *)
(***************************************************************************)

\* (uint32_t)(time * sample_rate): times are in 1/TIME_DEN s, truncation.
SampleCount(time, rate) == (time * rate) \div TIME_DEN

\* A float that is not a number: sustain_level is stored as the caller gave
\* it.  Every comparison with it is false, every sum or quotient of it is
\* NaN again.
NaN == 1000000

FSub(a, b) == IF a = NaN \/ b = NaN THEN NaN ELSE a - b

FDiv(a, n) == IF a = NaN THEN NaN ELSE a \div n

\* The state of an envelope_generator_t after memset(0).
ZeroParams == [attack_time |-> 0, decay_time |-> 0, sustain_level |-> 0,
               release_time |-> 0]

ZeroEnvelope ==
    [stage |-> "IDLE", current_level |-> 0, sample_rate |-> 0,
     params |-> ZeroParams, attack_coeff |-> 0, decay_coeff |-> 0,
     release_coeff |-> 0, stage_samples |-> 0, samples_processed |-> 0]

envelope_init(sample_rate, params) ==
    LET attack_samples == SampleCount(params.attack_time, sample_rate)
        decay_samples == SampleCount(params.decay_time, sample_rate)
        release_samples == SampleCount(params.release_time, sample_rate)
    IN  [ZeroEnvelope EXCEPT
            !.sample_rate = sample_rate,
            !.params = params,
            !.stage = "IDLE",
            !.current_level = 0,
            !.attack_coeff = IF attack_samples > 0
                             THEN ONE \div attack_samples ELSE ONE,
            !.decay_coeff = IF decay_samples > 0
                            THEN FDiv(FSub(ONE, params.sustain_level),
                                      decay_samples)
                            ELSE 0,
            !.release_coeff = IF release_samples > 0
                              THEN FDiv(params.sustain_level,
                                        release_samples)
                              ELSE params.sustain_level]

envelope_trigger(env) ==
    LET n == SampleCount(env.params.attack_time, env.sample_rate)
    IN  [env EXCEPT !.stage = "ATTACK",
                    !.stage_samples = IF n = 0 THEN 1 ELSE n,
                    !.samples_processed = 0]

\* A release that takes its length from the attack time.
envelope_release_attack_time(env) ==
    LET n == SampleCount(env.params.attack_time, env.sample_rate)
    IN  [env EXCEPT !.stage = "RELEASE",
                    !.stage_samples = IF n = 0 THEN 1 ELSE n,
                    !.samples_processed = 0]

\* A release whose step is taken from the level at the moment of release.
envelope_release_from_level(env) ==
    LET n == SampleCount(env.params.release_time, env.sample_rate)
    IN  [env EXCEPT !.stage = "RELEASE",
                    !.stage_samples = IF n = 0 THEN 1 ELSE n,
                    !.samples_processed = 0,
                    !.release_coeff =
                        FDiv(env.current_level, IF n = 0 THEN 1 ELSE n)]

envelope_release(env) ==
    LET n == SampleCount(env.params.release_time, env.sample_rate)
    IN  [env EXCEPT !.stage = "RELEASE",
                    !.stage_samples = IF n = 0 THEN 1 ELSE n,
                    !.samples_processed = 0]

\* The two comparisons that end envelope_process: both are false of a NaN.
Clamp(level) ==
    IF level = NaN THEN NaN
    ELSE IF level < 0 THEN 0 ELSE IF level > ONE THEN ONE ELSE level

\* An envelope that goes from Attack straight to Sustain when the decay
\* has no samples.
envelope_step_skips_decay(env) ==
    LET adv ==
          CASE env.stage = "IDLE" -> env
            [] env.stage = "ATTACK" ->
                 IF env.samples_processed < env.stage_samples
                 THEN [env EXCEPT
                         !.current_level = env.current_level + env.attack_coeff,
                         !.samples_processed = env.samples_processed + 1]
                 ELSE IF SampleCount(env.params.decay_time,
                                     env.sample_rate) = 0
                 THEN [env EXCEPT
                         !.stage = "SUSTAIN",
                         !.current_level = env.params.sustain_level]
                 ELSE [env EXCEPT
                         !.stage = "DECAY",
                         !.stage_samples =
                             SampleCount(env.params.decay_time, env.sample_rate),
                         !.samples_processed = 0,
                         !.current_level = ONE]
            [] env.stage = "DECAY" ->
                 IF env.samples_processed < env.stage_samples
                 THEN [env EXCEPT
                         !.current_level =
                             FSub(env.current_level, env.decay_coeff),
                         !.samples_processed = env.samples_processed + 1]
                 ELSE [env EXCEPT
                         !.stage = "SUSTAIN",
                         !.current_level = env.params.sustain_level]
            [] env.stage = "SUSTAIN" ->
                 [env EXCEPT !.current_level = env.params.sustain_level]
            [] env.stage = "RELEASE" ->
                 IF env.samples_processed < env.stage_samples
                 THEN [env EXCEPT
                         !.current_level =
                             FSub(env.current_level, env.release_coeff),
                         !.samples_processed = env.samples_processed + 1]
                 ELSE [env EXCEPT !.stage = "IDLE", !.current_level = 0]
    IN  IF env.stage = "IDLE" THEN env
        ELSE [adv EXCEPT !.current_level = Clamp(adv.current_level)]

\* The envelope after one envelope_process() call.
envelope_step(env) ==
    LET adv ==
          CASE env.stage = "IDLE" -> env
            [] env.stage = "ATTACK" ->
                 IF env.samples_processed < env.stage_samples
                 THEN [env EXCEPT
                         !.current_level = env.current_level + env.attack_coeff,
                         !.samples_processed = env.samples_processed + 1]
                 ELSE [env EXCEPT
                         !.stage = "DECAY",
                         !.stage_samples =
                             SampleCount(env.params.decay_time, env.sample_rate),
                         !.samples_processed = 0,
                         !.current_level = ONE]
            [] env.stage = "DECAY" ->
                 IF env.samples_processed < env.stage_samples
                 THEN [env EXCEPT
                         !.current_level =
                             FSub(env.current_level, env.decay_coeff),
                         !.samples_processed = env.samples_processed + 1]
                 ELSE [env EXCEPT
                         !.stage = "SUSTAIN",
                         !.current_level = env.params.sustain_level]
            [] env.stage = "SUSTAIN" ->
                 [env EXCEPT !.current_level = env.params.sustain_level]
            [] env.stage = "RELEASE" ->
                 IF env.samples_processed < env.stage_samples
                 THEN [env EXCEPT
                         !.current_level =
                             FSub(env.current_level, env.release_coeff),
                         !.samples_processed = env.samples_processed + 1]
                 ELSE [env EXCEPT !.stage = "IDLE", !.current_level = 0]
    IN  IF env.stage = "IDLE" THEN env
        ELSE [adv EXCEPT !.current_level = Clamp(adv.current_level)]

\* The value envelope_process() returns: the level before the step.
envelope_output(env) == IF env.stage = "IDLE" THEN 0 ELSE env.current_level

\* An envelope that never reports its end.
envelope_is_active_always(env) == TRUE

envelope_is_active(env) == env.stage # "IDLE"

(***************************************************************************)
(* The baseline envelope generator (core/envelope.c): the level is         *)
(* recomputed from the sample counter.  envelope_trigger and               *)
(* envelope_release are the same code as in envelope_rt.c.                 *)
(***************************************************************************)

\* envelope_init of core/envelope.c: no coefficients.
core_envelope_init(sample_rate, params) ==
    [ZeroEnvelope EXCEPT !.sample_rate = sample_rate, !.params = params]

\* The envelope after one envelope_process() call of core/envelope.c; the
\* call returns the level before the step, in Idle too.
core_envelope_step(env) ==
    LET k == env.samples_processed
        n == env.stage_samples
        sustain == env.params.sustain_level
        decay == SampleCount(env.params.decay_time, env.sample_rate)
        adv ==
          CASE env.stage = "IDLE" -> [env EXCEPT !.current_level = 0]
            [] env.stage = "ATTACK" ->
                 IF k < n
                 THEN [env EXCEPT !.current_level = (ONE * k) \div n,
                                  !.samples_processed = k + 1]
                 ELSE [env EXCEPT
                         !.stage = "DECAY",
                         !.stage_samples = IF decay = 0 THEN 1 ELSE decay,
                         !.samples_processed = 0,
                         !.current_level = ONE]
            [] env.stage = "DECAY" ->
                 IF k < n
                 THEN [env EXCEPT
                         !.current_level =
                             FSub(ONE, FDiv(IF sustain = NaN THEN NaN
                                            ELSE k * (ONE - sustain), n)),
                         !.samples_processed = k + 1]
                 ELSE [env EXCEPT !.stage = "SUSTAIN",
                                  !.current_level = sustain]
            [] env.stage = "SUSTAIN" -> [env EXCEPT !.current_level = sustain]
            [] env.stage = "RELEASE" ->
                 IF k < n
                 THEN [env EXCEPT
                         !.current_level =
                             FDiv(IF sustain = NaN THEN NaN
                                  ELSE sustain * (n - k), n),
                         !.samples_processed = k + 1]
                 ELSE [env EXCEPT !.stage = "IDLE", !.current_level = 0]
    IN  [adv EXCEPT !.current_level = Clamp(adv.current_level)]


(***************************************************************************)
(* Samples and instruments (internal_rt.h, sampler_rt.c).                  *)
(***************************************************************************)

\* ms_sample_data_t: data holds num_frames * channels values.
Sample(data, num_frames, channels, root, vlow, vhigh, loop, lstart, lend) ==
    [data |-> data, num_frames |-> num_frames, channels |-> channels,
     meta |-> [root_note |-> root, velocity_low |-> vlow,
               velocity_high |-> vhigh, loop_enabled |-> loop,
               loop_start |-> lstart, loop_end |-> lend]]

\* A pointer to a sample: the owning instrument and the index in samples[].
NullSample == [inst |-> NULL, idx |-> 0]

SampleRef(inst, idx) == [inst |-> inst, idx |-> idx]

RECURSIVE FindLoop(_, _, _, _, _, _, _)
\* One of the two scans of instrument_find_sample: from index i on, keeping
\* the best match so far and its distance; useVel selects the first scan.
FindLoop(samples, note, velocity, useVel, i, best, minDist) ==
    IF i > Len(samples) THEN [best |-> best, minDist |-> minDist]
    ELSE LET sample == samples[i]
             velOk == velocity >= sample.meta.velocity_low
                      /\ velocity <= sample.meta.velocity_high
             note_distance == Abs(note - sample.meta.root_note)
         IN  IF (useVel => velOk) /\ note_distance < minDist
             THEN FindLoop(samples, note, velocity, useVel, i + 1, i,
                           note_distance)
             ELSE FindLoop(samples, note, velocity, useVel, i + 1, best,
                           minDist)

\* instrument_find_sample: the index (1-based) of the sample found in the
\* instrument's array, 0 for NULL.
instrument_find_sample(samples, note, velocity) ==
    LET first == FindLoop(samples, note, velocity, TRUE, 1, 0, 128)
    IN  IF first.best = 0 /\ Len(samples) > 0
        THEN FindLoop(samples, note, velocity, FALSE, 1, first.best,
                      first.minDist).best
        ELSE first.best

(***************************************************************************)
(* Voice (voice_rt.c).                                                     *)
(***************************************************************************)

\* MIDI_FREQ_TABLE in mHz, for the notes the model uses.
MIDI_FREQ_TABLE(note) ==
    CASE note = 48 -> 130813
      [] note = 60 -> 261626
      [] note = 72 -> 523251

midi_note_to_frequency(note) == MIDI_FREQ_TABLE(note % 128)

\* a / b rounded to the nearest integer (a >= 0, b > 0).
RoundDiv(a, b) == (2 * a + b) \div (2 * b)

\* powf(2.0f, semitones / 12.0f) over SPEED_ONE, for whole semitones.
Pow2Semitones(semitones) ==
    CASE semitones = 0 -> SPEED_ONE
      [] semitones = 1 -> 1059
      [] semitones = 2 -> 1122
      [] semitones = -1 -> 944
      [] semitones = -2 -> 891

\* The multiplier ms_pitch_bend computes from a bend value and a range.
PitchBendMultiplier(value, range) == Pow2Semitones((value * range) \div 8192)

\* (target_freq / sample_freq) * pitch_bend_multiplier, over SPEED_ONE.
PlaybackSpeed(note, root_note, multiplier) ==
    RoundDiv(RoundDiv(midi_note_to_frequency(note) * SPEED_ONE,
                      midi_note_to_frequency(root_note)) * multiplier,
             SPEED_ONE)

\* voice_init: memset(0), then the id and the multiplier 1.0f.
voice_init(voice_id) ==
    [active |-> FALSE, voice_id |-> voice_id, note |-> 0, velocity |-> 0,
     sample |-> NullSample, playback_position |-> 0, playback_speed |-> 0,
     envelope |-> ZeroEnvelope, pitch_bend_multiplier |-> SPEED_ONE,
     velocity_gain |-> 0, instrument |-> NULL]

\* A voice slot that voice_init never reached: all zero.
ZeroVoice == [voice_init(0) EXCEPT !.pitch_bend_multiplier = 0]

\* A trigger that restarts the envelope without clearing its level.
voice_trigger_keeps_level(voice, ref, sd, note, velocity, envelope) ==
    [voice EXCEPT
        !.active = TRUE,
        !.note = note,
        !.velocity = velocity,
        !.sample = ref,
        !.playback_position = 0,
        !.velocity_gain = velocity,
        !.playback_speed = PlaybackSpeed(note, sd.meta.root_note,
                                         voice.pitch_bend_multiplier),
        !.envelope = envelope_trigger(
                        [envelope_init(ENV_SAMPLE_RATE, envelope) EXCEPT
                            !.current_level = voice.envelope.current_level])]

\* voice_trigger(voice, sample, note, velocity, envelope); sd is *sample.
voice_trigger(voice, ref, sd, note, velocity, envelope) ==
    [voice EXCEPT
        !.active = TRUE,
        !.note = note,
        !.velocity = velocity,
        !.sample = ref,
        !.playback_position = 0,
        !.velocity_gain = velocity,
        !.playback_speed = PlaybackSpeed(note, sd.meta.root_note,
                                         voice.pitch_bend_multiplier),
        !.envelope = envelope_trigger(envelope_init(ENV_SAMPLE_RATE, envelope))]

voice_release(voice) ==
    [voice EXCEPT !.envelope = envelope_release(voice.envelope)]

\* A read of the value that follows the one asked for.
ReadDataShifted(sd, i) == IF i + 1 < Len(sd.data) THEN sd.data[i + 2] ELSE 0

\* sample->data[i]; a read past the buffer yields 0 here and is reported.
ReadData(sd, i) == IF i < Len(sd.data) THEN sd.data[i + 1] ELSE 0

\* A mix that stores the value instead of adding it.
MixIntoOverwrite(out, k, value) ==
    IF k < Len(out) THEN [out EXCEPT ![k + 1] = value] ELSE out

\* output[k] += value (k counted from 0).
MixInto(out, k, value) ==
    IF k < Len(out) THEN [out EXCEPT ![k + 1] = out[k + 1] + value] ELSE out

RECURSIVE VoiceLoopWrapsAtLoopEnd(_, _, _, _, _, _, _, _)
\* A frame loop that goes back to loop_start as soon as the position has
\* reached loop_end.
VoiceLoopWrapsAtLoopEnd(voice, sd, out, i, num_frames, channels, position, oob) ==
    IF i >= num_frames
    THEN [voice |-> [voice EXCEPT !.playback_position = position],
          out |-> out, oob |-> oob]
    ELSE
      LET loops == sd.meta.loop_enabled /\ sd.meta.loop_end > sd.meta.loop_start
          ended == \/ position >= sd.num_frames * SPEED_ONE
                   \/ loops /\ position >= sd.meta.loop_end * SPEED_ONE
      IN  IF ended /\ ~loops
          THEN [voice |-> [voice EXCEPT !.active = FALSE,
                                        !.playback_position = position],
                out |-> out, oob |-> oob]
          ELSE
            LET pos == IF ended THEN sd.meta.loop_start * SPEED_ONE
                       ELSE position
                index == pos \div SPEED_ONE
                frac == pos % SPEED_ONE
                stride == IF sd.channels = 1 THEN 1 ELSE 2
                hasNext == index + 1 < sd.num_frames
                s0 == ReadData(sd, index * stride)
                s1 == IF hasNext THEN ReadData(sd, (index + 1) * stride)
                      ELSE s0
                sample_value == s0 * SPEED_ONE + frac * (s1 - s0)
                env_level == envelope_output(voice.envelope)
                env2 == envelope_step(voice.envelope)
                final_value == sample_value * env_level * voice.velocity_gain
                out2 == IF channels = 2
                        THEN MixInto(MixInto(out, i * 2, final_value),
                                     i * 2 + 1, final_value)
                        ELSE MixInto(out, i, final_value)
                position2 == pos + voice.playback_speed
                oob2 == oob \/ index * stride >= Len(sd.data)
                            \/ (hasNext /\ (index + 1) * stride >= Len(sd.data))
            IN  IF ~envelope_is_active(env2)
                THEN [voice |-> [voice EXCEPT !.envelope = env2,
                                              !.active = FALSE,
                                              !.playback_position = position2],
                      out |-> out2, oob |-> oob2]
                ELSE VoiceLoopWrapsAtLoopEnd([voice EXCEPT !.envelope = env2], sd, out2,
                               i + 1, num_frames, channels, position2, oob2)

RECURSIVE VoiceLoop(_, _, _, _, _, _, _, _)
\* The frame loop of voice_process from frame i on.  The result holds the
\* voice, the output buffer and whether a read left the sample buffer.
\* Output values are numerators over SPEED_ONE * ONE * 127.
VoiceLoop(voice, sd, out, i, num_frames, channels, position, oob) ==
    IF i >= num_frames
    THEN [voice |-> [voice EXCEPT !.playback_position = position],
          out |-> out, oob |-> oob]
    ELSE
      LET ended == position >= sd.num_frames * SPEED_ONE
          loops == sd.meta.loop_enabled /\ sd.meta.loop_end > sd.meta.loop_start
      IN  IF ended /\ ~loops
          THEN [voice |-> [voice EXCEPT !.active = FALSE,
                                        !.playback_position = position],
                out |-> out, oob |-> oob]
          ELSE
            LET pos == IF ended THEN sd.meta.loop_start * SPEED_ONE
                       ELSE position
                index == pos \div SPEED_ONE
                frac == pos % SPEED_ONE
                stride == IF sd.channels = 1 THEN 1 ELSE 2
                hasNext == index + 1 < sd.num_frames
                s0 == ReadData(sd, index * stride)
                s1 == IF hasNext THEN ReadData(sd, (index + 1) * stride)
                      ELSE s0
                sample_value == s0 * SPEED_ONE + frac * (s1 - s0)
                env_level == envelope_output(voice.envelope)
                env2 == envelope_step(voice.envelope)
                final_value == sample_value * env_level * voice.velocity_gain
                out2 == IF channels = 2
                        THEN MixInto(MixInto(out, i * 2, final_value),
                                     i * 2 + 1, final_value)
                        ELSE MixInto(out, i, final_value)
                position2 == pos + voice.playback_speed
                oob2 == oob \/ index * stride >= Len(sd.data)
                            \/ (hasNext /\ (index + 1) * stride >= Len(sd.data))
            IN  IF ~envelope_is_active(env2)
                THEN [voice |-> [voice EXCEPT !.envelope = env2,
                                              !.active = FALSE,
                                              !.playback_position = position2],
                      out |-> out2, oob |-> oob2]
                ELSE VoiceLoop([voice EXCEPT !.envelope = env2], sd, out2,
                               i + 1, num_frames, channels, position2, oob2)

\* voice_process(voice, output, num_frames, channels); sd is *voice->sample.
voice_process(voice, sd, out, num_frames, channels) ==
    IF ~voice.active \/ voice.sample = NullSample
    THEN [voice |-> voice, out |-> out, oob |-> FALSE]
    ELSE VoiceLoop(voice, sd, out, 0, num_frames, channels,
                   voice.playback_position, FALSE)

(***************************************************************************)
(* Event queue (internal_rt.h).                                            *)
(***************************************************************************)

\* rt_event_t
Event(note, velocity, event_type, instrument) ==
    [note |-> note, velocity |-> velocity, event_type |-> event_type,
     instrument |-> instrument]

ZeroEvent == Event(0, 0, 0, NULL)

\* (idx + 1) % RT_EVENT_QUEUE_SIZE
NextIndex(idx) == (idx + 1) % RT_EVENT_QUEUE_SIZE

\* A push that never finds the queue full and overwrites unread slots.
QueueFullNever(w, r) == FALSE

\* A push that compares write_idx itself, not its successor, with read_idx.
QueueFullAtEqual(w, r) == w = r

\* The test of rt_queue_push on its two loaded indices.
QueueFull(w, r) == NextIndex(w) = r

\* The test of rt_queue_pop on its two loaded indices.
QueueEmpty(r, w) == r = w

\* A push that copies the event into the slot before it tests for fullness.
rt_queue_push_write_first(w, r, evs, event) ==
    [ok |-> ~QueueFull(w, r),
     write_idx |-> IF QueueFull(w, r) THEN w ELSE NextIndex(w),
     events |-> [evs EXCEPT ![w] = event]]

\* rt_queue_push run without interruption on queue (w, r, evs).
rt_queue_push(w, r, evs, event) ==
    IF QueueFull(w, r)
    THEN [ok |-> FALSE, write_idx |-> w, events |-> evs]
    ELSE [ok |-> TRUE, write_idx |-> NextIndex(w),
          events |-> [evs EXCEPT ![w] = event]]

\* rt_queue_pop run without interruption on queue (w, r, evs).
rt_queue_pop(w, r, evs) ==
    IF QueueEmpty(r, w)
    THEN [ok |-> FALSE, read_idx |-> r, event |-> ZeroEvent]
    ELSE [ok |-> TRUE, read_idx |-> NextIndex(r), event |-> evs[r]]

(***************************************************************************)
(* State.                                                                  *)
(***************************************************************************)
VARIABLES
    config,            \* ms_sampler_t.config
    voices,            \* ms_sampler_t.voices[MS_MAX_VOICES]
    write_idx,         \* event_queue.write_idx
    read_idx,          \* event_queue.read_idx
    events,            \* event_queue.events[RT_EVENT_QUEUE_SIZE]
    instruments,       \* the instruments created on the sampler
    frames_processed,  \* ms_sampler_t.frames_processed
    output,            \* the caller's buffer after the last ms_process
    last,              \* the last API call and what it returned
    applied,           \* the events the last ms_process popped, in order
    uaf,               \* a render call has read memory already freed
    ctl,               \* control thread: position and locals inside a push
    rnd,               \* render thread: position and locals inside ms_process
    pushed,            \* every event a push has published, in order
    popped,            \* every event a pop has returned, in order
    ncalls,            \* the number of API calls made so far
    unit               \* one envelope or one voice driven on its own

qvars == <<write_idx, read_idx, events>>

svars == <<config, voices, instruments, frames_processed, output, last,
           applied, uaf>>

tvars == <<ctl, rnd, pushed, popped>>

vars == <<config, voices, write_idx, read_idx, events, instruments,
          frames_processed, output, last, applied, uaf, ctl, rnd, pushed,
          popped, ncalls, unit>>

\* min(config.max_polyphony, MS_MAX_VOICES): the slots the engine scans.
MaxVoices == Min(config.max_polyphony, MS_MAX_VOICES)

\* The events published and not yet popped, oldest first.
QueueLength == (write_idx - read_idx + RT_EVENT_QUEUE_SIZE) % RT_EVENT_QUEUE_SIZE

QueueContents ==
    [k \in 1..QueueLength |-> events[(read_idx + k - 1) % RT_EVENT_QUEUE_SIZE]]

ActiveVoices == {j \in VoiceIdx : voices[j].active}

(***************************************************************************)
(* The samples and envelopes the instruments of the model are built from.  *)
(***************************************************************************)
SampleRates == {48000}

Channels == {2}

Polyphonies == 0..(MS_MAX_VOICES + 1)

\* mono, root 60, every velocity, no loop
SampleA == Sample(<<6, 12, 6>>, 3, 1, 60, 0, 127, FALSE, 0, 0)

\* stereo, root 72, loud velocities only, looping
SampleB == Sample(<<12, 12, 6, 6>>, 2, 2, 72, 100, 127, TRUE, 0, 2)

\* what a read of a freed sample may find instead of the old contents
GarbageSample == Sample(<<>>, 0, 1, 60, 0, 0, FALSE, 0, 0)

EnvelopeA == [attack_time |-> 1, decay_time |-> 1, sustain_level |-> 6,
              release_time |-> 2]

EnvelopeB == [attack_time |-> 0, decay_time |-> 0, sustain_level |-> ONE,
              release_time |-> 1]

\* ms_instrument_create followed by loads and ms_instrument_set_envelope.
Instrument(samples, envelope) ==
    [alive |-> TRUE, samples |-> samples, envelope |-> envelope,
     pitch_bend_range |-> 2, current_pitch_bend |-> 0]

\* Instrument 1 holds both samples, every other instrument holds SampleA.
InitInstruments ==
    [i \in InstIds |-> IF i = 1
                       THEN Instrument(<<SampleA, SampleB>>, EnvelopeA)
                       ELSE Instrument(<<SampleA>>, EnvelopeB)]

\* ms_sampler_create: zeroed sampler, voice_init on the first
\* min(max_polyphony, MS_MAX_VOICES) slots, empty queue, zero counters.
ms_sampler_create(cfg) ==
    [j \in VoiceIdx |->
        IF j < Min(cfg.max_polyphony, MS_MAX_VOICES)
        THEN voice_init(j + 1) ELSE ZeroVoice]

IdleCtl == [pc |-> "idle", event |-> ZeroEvent, write_idx |-> 0,
            next_write |-> 0, read_idx |-> 0]

IdleRnd == [pc |-> "idle", i |-> 0, num_frames |-> 0, read_idx |-> 0,
            write_idx |-> 0, event |-> ZeroEvent]

\* ms_sampler_create with the configuration held in config.
InitSampler ==
    /\ voices = ms_sampler_create(config)
    /\ write_idx = 0
    /\ read_idx = 0
    /\ events = [k \in SlotIdx |-> ZeroEvent]
    /\ frames_processed = 0
    /\ output = <<>>
    /\ last = [op |-> "ms_sampler_create", ret |-> "MS_SUCCESS",
               stored |-> FALSE, voice_id |-> 0]
    /\ applied = <<>>
    /\ uaf = FALSE
    /\ ctl = IdleCtl
    /\ rnd = IdleRnd
    /\ pushed = <<>>
    /\ popped = <<>>
    /\ ncalls = 0

InitCommon ==
    /\ config \in [sample_rate : SampleRates, channels : Channels,
                   max_polyphony : Polyphonies]
    /\ InitSampler

\* No envelope or voice is driven on its own.
NoUnit == [kind |-> "none"]

Init ==
    /\ InitCommon
    /\ instruments = InitInstruments
    /\ unit = NoUnit

(***************************************************************************)
(* process_events and ms_process (sampler_rt.c).                           *)
(***************************************************************************)

\* The slot a NoteOn takes: the first inactive one among the scanned slots,
\* else slot 0.
\* An allocation that takes the highest inactive slot and steals the last.
AvailableVoiceHighest(vs) ==
    IF \E j \in VoiceIdx : j < MaxVoices /\ ~vs[j].active
    THEN CHOOSE j \in VoiceIdx :
            /\ j < MaxVoices /\ ~vs[j].active
            /\ \A k \in VoiceIdx : (k < MaxVoices /\ ~vs[k].active) => j >= k
    ELSE MS_MAX_VOICES - 1

AvailableVoice(vs) ==
    IF \E j \in VoiceIdx : j < MaxVoices /\ ~vs[j].active
    THEN CHOOSE j \in VoiceIdx :
            /\ j < MaxVoices /\ ~vs[j].active
            /\ \A k \in VoiceIdx : (k < MaxVoices /\ ~vs[k].active) => j <= k
    ELSE 0

\* The body of the drain loop for one popped event.  An event may name an
\* instrument already freed; what the read of it finds is the old contents
\* (stale) or an instrument without samples.
ApplyEvent(vs, event, stale) ==
    LET inst == event.instrument
    IN  IF event.event_type = 0
        THEN LET readable == inst # NULL /\ (instruments[inst].alive \/ stale)
                 idx == IF readable
                        THEN instrument_find_sample(instruments[inst].samples,
                                                    event.note, event.velocity)
                        ELSE 0
                 j == AvailableVoice(vs)
             IN  IF idx = 0 THEN vs
                 ELSE [vs EXCEPT ![j] =
                         [voice_trigger(vs[j], SampleRef(inst, idx),
                                        instruments[inst].samples[idx],
                                        event.note, event.velocity,
                                        instruments[inst].envelope)
                          EXCEPT !.instrument = inst]]
        ELSE [j \in VoiceIdx |->
                IF j < MaxVoices /\ vs[j].active /\ vs[j].note = event.note
                   /\ vs[j].instrument = inst
                THEN voice_release(vs[j]) ELSE vs[j]]

\* Whether applying the event reads a freed instrument.
EventReadsFreed(event) ==
    /\ event.event_type = 0
    /\ event.instrument # NULL
    /\ ~instruments[event.instrument].alive

RECURSIVE DrainLoopShort(_, _, _, _, _, _)
\* A drain that gives up one iteration before the queue's capacity.
DrainLoopShort(i, vs, r, log, freed, stale) ==
    IF i >= RT_EVENT_QUEUE_SIZE - 2
    THEN [voices |-> vs, read_idx |-> r, applied |-> log, uaf |-> freed]
    ELSE LET pop == rt_queue_pop(write_idx, r, events)
         IN  IF ~pop.ok
             THEN [voices |-> vs, read_idx |-> r, applied |-> log,
                   uaf |-> freed]
             ELSE DrainLoopShort(i + 1, ApplyEvent(vs, pop.event, stale),
                                 pop.read_idx, Append(log, pop.event),
                                 freed \/ EventReadsFreed(pop.event), stale)

RECURSIVE DrainLoop(_, _, _, _, _, _)
\* process_events from iteration i on, with no push running meanwhile.
DrainLoop(i, vs, r, log, freed, stale) ==
    IF i >= RT_EVENT_QUEUE_SIZE
    THEN [voices |-> vs, read_idx |-> r, applied |-> log, uaf |-> freed]
    ELSE LET pop == rt_queue_pop(write_idx, r, events)
         IN  IF ~pop.ok
             THEN [voices |-> vs, read_idx |-> r, applied |-> log,
                   uaf |-> freed]
             ELSE DrainLoop(i + 1, ApplyEvent(vs, pop.event, stale),
                            pop.read_idx, Append(log, pop.event),
                            freed \/ EventReadsFreed(pop.event), stale)

\* *voice->sample as the render call reads it.
SampleData(ref, stale) ==
    IF instruments[ref.inst].alive \/ stale
    THEN instruments[ref.inst].samples[ref.idx]
    ELSE GarbageSample

RECURSIVE ProcessVoices(_, _, _, _, _, _)
\* The voice loop of ms_process from slot i on.
ProcessVoices(i, vs, out, num_frames, freed, stale) ==
    IF i >= MaxVoices THEN [voices |-> vs, out |-> out, uaf |-> freed]
    ELSE IF vs[i].active /\ vs[i].sample # NullSample
         THEN LET res == voice_process(vs[i],
                                       SampleData(vs[i].sample, stale), out,
                                       num_frames, config.channels)
              IN  ProcessVoices(i + 1, [vs EXCEPT ![i] = res.voice], res.out,
                                num_frames,
                                freed \/ ~instruments[vs[i].sample.inst].alive,
                                stale)
         ELSE ProcessVoices(i + 1, vs, out, num_frames, freed, stale)

Zeros(n) == [k \in 1..n |-> 0]

(***************************************************************************)
(* The API calls, each run to completion (specification Spec).             *)
(***************************************************************************)

\* What a call leaves with its caller: the value returned and what it stored
\* through an output pointer.  sampler_rt.c has no statement that stores
\* through the voice_id pointer of ms_note_on.
Call(op, ret) == [op |-> op, ret |-> ret, stored |-> FALSE, voice_id |-> 0]

\* A behaviour of Spec makes at most MaxCalls calls.
Budget == ncalls < MaxCalls /\ ncalls' = ncalls + 1

\* The handles a caller may pass: NULL or an instrument not yet destroyed.
Handles == {NULL} \cup {i \in InstIds : instruments[i].alive}

\* ms_note_on / ms_note_off: build the event and push it.
PushCall(op, inst, event) ==
    /\ inst \in Handles
    /\ IF inst = NULL
       THEN /\ last' = Call(op, "MS_ERROR_INVALID_PARAM")
            /\ UNCHANGED qvars
       ELSE LET res == rt_queue_push(write_idx, read_idx, events, event)
            IN  /\ write_idx' = res.write_idx
                /\ events' = res.events
                /\ UNCHANGED read_idx
                /\ last' = Call(op, IF res.ok THEN "MS_SUCCESS"
                                    ELSE "MS_ERROR_BUFFER_OVERFLOW")
    /\ UNCHANGED <<config, voices, instruments, frames_processed, output,
                   applied, uaf>>
    /\ UNCHANGED <<tvars, unit>>

\* voice_id: the caller passes a non-NULL pointer; the body never uses it.
ms_note_on(inst, note, velocity, voice_id) ==
    PushCall("ms_note_on", inst, Event(note, velocity, 0, inst))

ms_note_off(inst, note) ==
    PushCall("ms_note_off", inst, Event(note, 0, 1, inst))

ms_all_notes_off ==
    /\ voices' = [j \in VoiceIdx |->
                    IF j < MaxVoices THEN [voices[j] EXCEPT !.active = FALSE]
                    ELSE voices[j]]
    /\ last' = Call("ms_all_notes_off", "void")
    /\ UNCHANGED <<config, instruments, frames_processed, output, applied,
                   uaf>>
    /\ UNCHANGED qvars
    /\ UNCHANGED <<tvars, unit>>

\* A pitch bend that marks every voice of the instrument active.
ms_pitch_bend_revives(inst, value) ==
    /\ inst \in Handles
    /\ IF inst = NULL
       THEN /\ last' = Call("ms_pitch_bend", "MS_ERROR_INVALID_PARAM")
            /\ UNCHANGED <<voices, instruments>>
       ELSE /\ instruments' =
                  [instruments EXCEPT ![inst].current_pitch_bend = value]
            /\ voices' =
                  [j \in VoiceIdx |->
                     IF voices[j].instrument = inst
                     THEN [voices[j] EXCEPT !.active = TRUE,
                                            !.pitch_bend_multiplier =
                             PitchBendMultiplier(value,
                                 instruments[inst].pitch_bend_range)]
                     ELSE voices[j]]
            /\ last' = Call("ms_pitch_bend", "MS_SUCCESS")
    /\ UNCHANGED <<config, frames_processed, output, applied, uaf>>
    /\ UNCHANGED qvars
    /\ UNCHANGED <<tvars, unit>>

ms_pitch_bend(inst, value) ==
    /\ inst \in Handles
    /\ IF inst = NULL
       THEN /\ last' = Call("ms_pitch_bend", "MS_ERROR_INVALID_PARAM")
            /\ UNCHANGED <<voices, instruments>>
       ELSE /\ instruments' =
                  [instruments EXCEPT ![inst].current_pitch_bend = value]
            /\ voices' =
                  [j \in VoiceIdx |->
                     IF voices[j].active /\ voices[j].instrument = inst
                     THEN [voices[j] EXCEPT !.pitch_bend_multiplier =
                             PitchBendMultiplier(value,
                                 instruments[inst].pitch_bend_range)]
                     ELSE voices[j]]
            /\ last' = Call("ms_pitch_bend", "MS_SUCCESS")
    /\ UNCHANGED <<config, frames_processed, output, applied, uaf>>
    /\ UNCHANGED qvars
    /\ UNCHANGED <<tvars, unit>>

\* ms_instrument_destroy: frees the samples and the instrument, nothing else.
ms_instrument_destroy(inst) ==
    /\ inst \in Handles
    /\ instruments' = IF inst = NULL THEN instruments
                      ELSE [instruments EXCEPT ![inst].alive = FALSE]
    /\ last' = Call("ms_instrument_destroy", "void")
    /\ UNCHANGED <<config, voices, frames_processed, output, applied, uaf>>
    /\ UNCHANGED qvars
    /\ UNCHANGED <<tvars, unit>>

\* An ms_process that counts the frames of a call it rejects.
ms_process_counts_rejected(hasOutput, num_frames, stale) ==
    /\ frames_processed' = frames_processed + num_frames
    /\ IF ~hasOutput
       THEN /\ last' = Call("ms_process", "MS_ERROR_INVALID_PARAM")
            /\ UNCHANGED <<voices, read_idx, output, applied, uaf>>
       ELSE LET drained == DrainLoop(0, voices, read_idx, <<>>, FALSE, stale)
                mixed == ProcessVoices(0, drained.voices,
                                       Zeros(num_frames * config.channels),
                                       num_frames, drained.uaf, stale)
            IN  /\ last' = Call("ms_process", "MS_SUCCESS")
                /\ voices' = mixed.voices
                /\ read_idx' = drained.read_idx
                /\ applied' = drained.applied
                /\ output' = mixed.out
                /\ uaf' = (uaf \/ mixed.uaf)
    /\ UNCHANGED <<config, instruments, write_idx, events>>
    /\ UNCHANGED <<tvars, unit>>

\* An ms_process that drains the queue before it looks at its arguments.
ms_process_drain_first(hasOutput, num_frames, stale) ==
    LET drained == DrainLoop(0, voices, read_idx, <<>>, FALSE, stale)
        mixed == ProcessVoices(0, drained.voices,
                               Zeros(num_frames * config.channels),
                               num_frames, drained.uaf, stale)
    IN  /\ read_idx' = drained.read_idx
        /\ applied' = drained.applied
        /\ IF ~hasOutput
           THEN /\ last' = Call("ms_process", "MS_ERROR_INVALID_PARAM")
                /\ voices' = drained.voices
                /\ uaf' = (uaf \/ drained.uaf)
                /\ UNCHANGED <<frames_processed, output>>
           ELSE /\ voices' = mixed.voices
                /\ output' = mixed.out
                /\ uaf' = (uaf \/ mixed.uaf)
                /\ frames_processed' = frames_processed + num_frames
                /\ last' = Call("ms_process", "MS_SUCCESS")
        /\ UNCHANGED <<config, instruments, write_idx, events>>
        /\ UNCHANGED <<tvars, unit>>

\* ms_process(sampler, output, num_frames); hasOutput: output is not NULL.
ms_process(hasOutput, num_frames, stale) ==
    /\ IF ~hasOutput
       THEN /\ last' = Call("ms_process", "MS_ERROR_INVALID_PARAM")
            /\ UNCHANGED <<voices, read_idx, frames_processed, output,
                           applied, uaf>>
       ELSE LET drained == DrainLoop(0, voices, read_idx, <<>>, FALSE, stale)
                mixed == ProcessVoices(0, drained.voices,
                                       Zeros(num_frames * config.channels),
                                       num_frames, drained.uaf, stale)
            IN  /\ last' = Call("ms_process", "MS_SUCCESS")
                /\ frames_processed' = frames_processed + num_frames
                /\ voices' = mixed.voices
                /\ read_idx' = drained.read_idx
                /\ applied' = drained.applied
                /\ output' = mixed.out
                /\ uaf' = (uaf \/ mixed.uaf)
    /\ UNCHANGED <<config, instruments, write_idx, events>>
    /\ UNCHANGED <<tvars, unit>>

NoteOn ==
    \E inst \in InstIds \cup {NULL}, note \in Notes, velocity \in Velocities,
       voice_id \in BOOLEAN :
        Budget /\ ms_note_on(inst, note, velocity, voice_id)

NoteOff ==
    \E inst \in InstIds \cup {NULL}, note \in Notes :
        Budget /\ ms_note_off(inst, note)

AllNotesOff == Budget /\ ms_all_notes_off

PitchBend ==
    \E inst \in InstIds \cup {NULL}, value \in BendValues :
        Budget /\ ms_pitch_bend(inst, value)

InstrumentDestroy ==
    \E inst \in InstIds \cup {NULL} : Budget /\ ms_instrument_destroy(inst)

Process ==
    \E hasOutput \in BOOLEAN, num_frames \in FrameCounts, stale \in BOOLEAN :
        Budget /\ ms_process(hasOutput, num_frames, stale)

Next ==
    \/ NoteOn
    \/ NoteOff
    \/ AllNotesOff
    \/ PitchBend
    \/ InstrumentDestroy
    \/ Process

Spec == Init /\ [][Next]_vars

(***************************************************************************)
(* The control thread and the render thread, one memory access at a time   *)
(* (specification SpecQueue).  The control thread runs ms_note_on and      *)
(* ms_note_off, i.e. rt_queue_push; the render thread runs ms_process,     *)
(* i.e. rt_queue_pop in the loop of process_events, then the voices.       *)
(* A step is one load or store of a shared location together with the      *)
(* thread-local computation that follows it.                               *)
(***************************************************************************)

\* The events the control thread sends in this specification.
QueueEvents == {Event(60, 100, 0, 1), Event(60, 0, 1, 1)}

\* The block lengths of the render thread in this specification; the
\* frames rendered are capped by MaxFrames.
QueueFrameCounts == {0, 1}

\* Entry of ms_note_on / ms_note_off with a valid instrument, up to and
\* including the load of write_idx.
CtlLoadWrite(event) ==
    /\ ctl.pc = "idle"
    /\ Len(pushed) < MaxPushes
    /\ ctl' = [ctl EXCEPT !.pc = "load_read", !.event = event,
                          !.write_idx = write_idx,
                          !.next_write = NextIndex(write_idx)]
    /\ UNCHANGED <<svars, qvars, rnd, pushed, popped, ncalls, unit>>

\* The load of read_idx and the test; a full queue ends the call.
CtlLoadRead ==
    /\ ctl.pc = "load_read"
    /\ IF QueueFull(ctl.write_idx, read_idx)
       THEN /\ ctl' = [ctl EXCEPT !.pc = "idle", !.read_idx = read_idx]
            /\ last' = Call(IF ctl.event.event_type = 0 THEN "ms_note_on"
                            ELSE "ms_note_off", "MS_ERROR_BUFFER_OVERFLOW")
       ELSE /\ ctl' = [ctl EXCEPT !.pc = "write_slot", !.read_idx = read_idx]
            /\ UNCHANGED last
    /\ UNCHANGED <<config, voices, instruments, frames_processed, output,
                   applied, uaf>>
    /\ UNCHANGED <<qvars, rnd, pushed, popped, ncalls, unit>>

\* q->events[write_idx] = *event
CtlWriteSlot ==
    /\ ctl.pc = "write_slot"
    /\ events' = [events EXCEPT ![ctl.write_idx] = ctl.event]
    /\ ctl' = [ctl EXCEPT !.pc = "store_write"]
    /\ UNCHANGED <<svars, write_idx, read_idx, rnd, pushed, popped, ncalls, unit>>

\* A note call that, like the mutex-guarded engine, also starts or releases
\* the voice itself on the calling thread.
CtlStoreWriteAndTrigger ==
    /\ ctl.pc = "store_write"
    /\ write_idx' = ctl.next_write
    /\ pushed' = Append(pushed, ctl.event)
    /\ ctl' = [ctl EXCEPT !.pc = "idle"]
    /\ voices' = ApplyEvent(voices, ctl.event, TRUE)
    /\ last' = Call(IF ctl.event.event_type = 0 THEN "ms_note_on"
                    ELSE "ms_note_off", "MS_SUCCESS")
    /\ UNCHANGED <<config, instruments, frames_processed, output, applied,
                   uaf>>
    /\ UNCHANGED <<read_idx, events, rnd, popped, ncalls, unit>>

\* The store of write_idx, which publishes the event; the call returns.
CtlStoreWrite ==
    /\ ctl.pc = "store_write"
    /\ write_idx' = ctl.next_write
    /\ pushed' = Append(pushed, ctl.event)
    /\ ctl' = [ctl EXCEPT !.pc = "idle"]
    /\ last' = Call(IF ctl.event.event_type = 0 THEN "ms_note_on"
                    ELSE "ms_note_off", "MS_SUCCESS")
    /\ UNCHANGED <<config, voices, instruments, frames_processed, output,
                   applied, uaf>>
    /\ UNCHANGED <<read_idx, events, rnd, popped, ncalls, unit>>

\* Entry of ms_process with valid arguments: the output is zeroed.
RndBegin(num_frames) ==
    /\ rnd.pc = "idle"
    /\ frames_processed + num_frames <= MaxFrames
    /\ rnd' = [rnd EXCEPT !.pc = "pop_load_read", !.i = 0,
                          !.num_frames = num_frames]
    /\ output' = Zeros(num_frames * config.channels)
    /\ applied' = <<>>
    /\ UNCHANGED <<config, voices, instruments, frames_processed, last, uaf>>
    /\ UNCHANGED <<qvars, ctl, pushed, popped, ncalls, unit>>

\* rt_queue_pop: the load of read_idx.
RndLoadRead ==
    /\ rnd.pc = "pop_load_read"
    /\ rnd' = [rnd EXCEPT !.pc = "pop_load_write", !.read_idx = read_idx]
    /\ UNCHANGED <<svars, qvars, ctl, pushed, popped, ncalls, unit>>

\* rt_queue_pop: the load of write_idx and the test; an empty queue ends
\* the loop of process_events.
RndLoadWrite ==
    /\ rnd.pc = "pop_load_write"
    /\ rnd' = [rnd EXCEPT !.write_idx = write_idx,
                          !.pc = IF QueueEmpty(rnd.read_idx, write_idx)
                                 THEN "voices" ELSE "read_slot"]
    /\ UNCHANGED <<svars, qvars, ctl, pushed, popped, ncalls, unit>>

\* *event = q->events[read_idx]
RndReadSlot ==
    /\ rnd.pc = "read_slot"
    /\ rnd' = [rnd EXCEPT !.event = events[rnd.read_idx], !.pc = "store_read"]
    /\ UNCHANGED <<svars, qvars, ctl, pushed, popped, ncalls, unit>>

\* A drain loop that pops until the queue is empty, without counting.
RndStoreReadUncounted ==
    /\ rnd.pc = "store_read"
    /\ read_idx' = NextIndex(rnd.read_idx)
    /\ popped' = Append(popped, rnd.event)
    /\ applied' = Append(applied, rnd.event)
    /\ voices' = ApplyEvent(voices, rnd.event, TRUE)
    /\ rnd' = [rnd EXCEPT !.pc = "pop_load_read"]
    /\ UNCHANGED <<config, instruments, frames_processed, output, last, uaf>>
    /\ UNCHANGED <<write_idx, events, ctl, pushed, ncalls, unit>>

\* The store of read_idx, which frees the slot; the pop returns and the
\* loop body handles the event.
RndStoreRead ==
    /\ rnd.pc = "store_read"
    /\ read_idx' = NextIndex(rnd.read_idx)
    /\ popped' = Append(popped, rnd.event)
    /\ applied' = Append(applied, rnd.event)
    /\ voices' = ApplyEvent(voices, rnd.event, TRUE)
    /\ rnd' = [rnd EXCEPT !.i = rnd.i + 1,
                          !.pc = IF rnd.i + 1 < RT_EVENT_QUEUE_SIZE
                                 THEN "pop_load_read" ELSE "voices"]
    /\ UNCHANGED <<config, instruments, frames_processed, output, last, uaf>>
    /\ UNCHANGED <<write_idx, events, ctl, pushed, ncalls, unit>>

\* The voice loop of ms_process, the counter, the return.
RndVoices ==
    /\ rnd.pc = "voices"
    /\ LET mixed == ProcessVoices(0, voices, output, rnd.num_frames, FALSE,
                                  TRUE)
       IN  /\ voices' = mixed.voices
           /\ output' = mixed.out
    /\ frames_processed' = frames_processed + rnd.num_frames
    /\ last' = Call("ms_process", "MS_SUCCESS")
    /\ rnd' = [rnd EXCEPT !.pc = "idle"]
    /\ UNCHANGED <<config, instruments, applied, uaf>>
    /\ UNCHANGED <<qvars, ctl, pushed, popped, ncalls, unit>>

NextQueue ==
    \/ \E event \in QueueEvents : CtlLoadWrite(event)
    \/ CtlLoadRead
    \/ CtlWriteSlot
    \/ CtlStoreWrite
    \/ \E num_frames \in QueueFrameCounts : RndBegin(num_frames)
    \/ RndLoadRead
    \/ RndLoadWrite
    \/ RndReadSlot
    \/ RndStoreRead
    \/ RndVoices

SpecQueue == Init /\ [][NextQueue]_vars

(***************************************************************************)
(* One envelope generator driven on its own: envelope_init and             *)
(* envelope_trigger, then envelope_process calls, one envelope_release     *)
(* from Attack, Decay or Sustain, and envelope_process calls again.        *)
(***************************************************************************)

\* envelope_process calls made before the release.
MaxEnvCalls == 7

\* The longest attack, decay and release time, in units of 1 / TIME_DEN s.
MaxEnvTime == 3

EnvRates == {22050, 44100}

\* ms_instrument_set_envelope stores the caller's envelope as it is: the
\* sustain levels include two outside [0, 1] and NaN.
EnvSustainLevels ==
    {0, ONE \div 2, ONE, 0 - ONE \div 2, ONE + ONE \div 2, NaN}

EnvParams ==
    [attack_time : 0..(MaxEnvTime - 1), decay_time : 0..(MaxEnvTime - 1),
     sustain_level : EnvSustainLevels, release_time : 0..MaxEnvTime]

\* The sampler stands by, untouched, while a unit is driven on its own.
InitStandby ==
    /\ InitCommon
    /\ config.max_polyphony = 1
    /\ instruments = InitInstruments

InitEnv ==
    /\ InitStandby
    /\ unit \in {[kind |-> "envelope",
                  env |-> envelope_trigger(envelope_init(rate, params)),
                  before |-> 0, released |-> FALSE, from |-> "IDLE",
                  calls |-> 0, idle_after |-> 0, out |-> 0,
                  retriggered |-> FALSE, level0 |-> 0,
                  core |-> envelope_trigger(core_envelope_init(rate, params)),
                  core_out |-> 0] :
                 rate \in EnvRates, params \in EnvParams}

\* voice_trigger on the voice that owns the envelope, once more: envelope_init
\* and envelope_trigger with the same parameters, from whatever stage.
EnvTrigger ==
    /\ unit.kind = "envelope"
    /\ ~unit.retriggered
    /\ unit' = [unit EXCEPT
                  !.env = envelope_trigger(
                              envelope_init(unit.env.sample_rate,
                                            unit.env.params)),
                  !.before = 0, !.released = FALSE, !.from = "IDLE",
                  !.calls = 0, !.idle_after = 0, !.retriggered = TRUE,
                  !.level0 = 0,
                  !.core = envelope_trigger(
                               core_envelope_init(unit.env.sample_rate,
                                                  unit.env.params))]
    /\ UNCHANGED <<svars, qvars, tvars, ncalls>>

\* envelope_process(env), on the envelope and on its baseline twin.
EnvProcess ==
    /\ unit.kind = "envelope"
    /\ IF unit.released
       THEN unit.calls < unit.env.stage_samples + 3
       ELSE unit.before < MaxEnvCalls
    /\ LET env == envelope_step(unit.env)
       IN  unit' = [unit EXCEPT
                      !.env = env,
                      !.out = envelope_output(unit.env),
                      !.core = core_envelope_step(unit.core),
                      !.core_out = unit.core.current_level,
                      !.before = IF unit.released THEN @ ELSE @ + 1,
                      !.calls = IF unit.released THEN @ + 1 ELSE @,
                      !.idle_after =
                          IF unit.released /\ @ = 0 /\ env.stage = "IDLE"
                          THEN unit.calls + 1 ELSE @]
    /\ UNCHANGED <<svars, qvars, tvars, ncalls>>

\* envelope_release(env), once, from Attack, Decay or Sustain.
EnvRelease ==
    /\ unit.kind = "envelope"
    /\ ~unit.released
    /\ unit.env.stage \in {"ATTACK", "DECAY", "SUSTAIN"}
    /\ unit' = [unit EXCEPT !.env = envelope_release(unit.env),
                            !.released = TRUE,
                            !.from = unit.env.stage,
                            !.level0 = unit.env.current_level,
                            !.core = envelope_release(unit.core)]
    /\ UNCHANGED <<svars, qvars, tvars, ncalls>>

NextEnv ==
    \/ EnvTrigger
    \/ EnvProcess
    \/ EnvRelease

SpecEnv == InitEnv /\ [][NextEnv]_vars

(***************************************************************************)
(* Two control threads and the render thread (specification SpecTwo).      *)
(* The first control thread and the render thread are those of SpecQueue,  *)
(* with one event and empty blocks; the second control thread runs         *)
(* ms_note_on with its locals in unit.                                     *)
(***************************************************************************)

\* The event the second control thread sends.
SecondEvent == Event(72, 100, 0, 1)

InitTwo ==
    /\ InitStandby
    /\ unit = [kind |-> "producer", pc |-> "idle", write_idx |-> 0,
               next_write |-> 0, read_idx |-> 0]

\* Second thread, rt_queue_push: the load of write_idx.
SecondLoadWrite ==
    /\ unit.kind = "producer"
    /\ unit.pc = "idle"
    /\ Len(pushed) < MaxPushes
    /\ unit' = [unit EXCEPT !.pc = "load_read", !.write_idx = write_idx,
                            !.next_write = NextIndex(write_idx)]
    /\ UNCHANGED <<svars, qvars, tvars, ncalls>>

\* Second thread: the load of read_idx and the test.
SecondLoadRead ==
    /\ unit.kind = "producer"
    /\ unit.pc = "load_read"
    /\ unit' = [unit EXCEPT !.read_idx = read_idx,
                            !.pc = IF QueueFull(unit.write_idx, read_idx)
                                   THEN "idle" ELSE "write_slot"]
    /\ UNCHANGED <<svars, qvars, tvars, ncalls>>

\* Second thread: q->events[write_idx] = *event, a plain struct copy.  When
\* the first thread is between its own copy into the same slot and its
\* publication the two copies race, and the slot may also end up with the
\* note of one event and the rest of the other.
SecondWriteSlot ==
    /\ unit.kind = "producer"
    /\ unit.pc = "write_slot"
    /\ \E stored \in {SecondEvent} \cup
                      (IF ctl.pc = "store_write"
                          /\ ctl.write_idx = unit.write_idx
                       THEN {[SecondEvent EXCEPT !.note = ctl.event.note]}
                       ELSE {}) :
          events' = [events EXCEPT ![unit.write_idx] = stored]
    /\ unit' = [unit EXCEPT !.pc = "store_write"]
    /\ UNCHANGED <<svars, write_idx, read_idx, tvars, ncalls>>

\* Second thread: the store of write_idx; ms_note_on returns MS_SUCCESS.
SecondStoreWrite ==
    /\ unit.kind = "producer"
    /\ unit.pc = "store_write"
    /\ write_idx' = unit.next_write
    /\ pushed' = Append(pushed, SecondEvent)
    /\ unit' = [unit EXCEPT !.pc = "idle"]
    /\ UNCHANGED <<svars, read_idx, events, ctl, rnd, popped, ncalls>>

NextTwo ==
    \/ SecondLoadWrite
    \/ SecondLoadRead
    \/ SecondWriteSlot
    \/ SecondStoreWrite
    \/ CtlLoadWrite(Event(60, 100, 0, 1))
    \/ CtlLoadRead
    \/ CtlWriteSlot
    \/ CtlStoreWrite
    \/ RndBegin(0)
    \/ RndLoadRead
    \/ RndLoadWrite
    \/ RndReadSlot
    \/ RndStoreRead
    \/ RndVoices

SpecTwo == InitTwo /\ [][NextTwo]_vars

(***************************************************************************)
(* ms_instrument_set_envelope on a control thread while the render thread  *)
(* triggers a voice of the instrument (specification SpecRace).  Neither   *)
(* side takes a lock: the struct copy instrument->envelope = *envelope and *)
(* the reads of envelope_init through the same pointer are plain accesses, *)
(* taken here one float at a time.                                         *)
(***************************************************************************)

\* The fields of ms_envelope_t in the order of the struct.
EnvFields == <<"attack_time", "decay_time", "sustain_level", "release_time">>

InitRace ==
    /\ InitStandby
    /\ unit \in {[kind |-> "race", old |-> old, new |-> new, shared |-> old,
                  stored |-> 0, loaded |-> 0, params |-> ZeroParams,
                  seen |-> ZeroParams, env |-> ZeroEnvelope] :
                 old \in {EnvelopeA, EnvelopeB},
                 new \in {EnvelopeA, EnvelopeB, ZeroParams}}

\* ms_instrument_set_envelope: the next float of instrument->envelope.
RaceStore ==
    /\ unit.kind = "race"
    /\ unit.stored < Len(EnvFields)
    /\ LET f == EnvFields[unit.stored + 1]
       IN  unit' = [unit EXCEPT !.shared[f] = unit.new[f],
                                !.stored = @ + 1]
    /\ UNCHANGED <<svars, qvars, tvars, ncalls>>

\* envelope_init called by voice_trigger with &inst->envelope: first the
\* copy env->params = *params, then the reads of params->attack_time,
\* decay_time, sustain_level and release_time for the coefficients; the
\* last read completes the envelope.
RaceLoad ==
    /\ unit.kind = "race"
    /\ unit.loaded < 2 * Len(EnvFields)
    /\ LET n == unit.loaded
           f == EnvFields[(n % Len(EnvFields)) + 1]
           params == IF n < Len(EnvFields)
                     THEN [unit.params EXCEPT ![f] = unit.shared[f]]
                     ELSE unit.params
           seen == IF n < Len(EnvFields) THEN unit.seen
                   ELSE [unit.seen EXCEPT ![f] = unit.shared[f]]
       IN  unit' = [unit EXCEPT
                      !.loaded = n + 1,
                      !.params = params,
                      !.seen = seen,
                      !.env = IF n + 1 = 2 * Len(EnvFields)
                              THEN envelope_trigger(
                                     [envelope_init(ENV_SAMPLE_RATE, seen)
                                        EXCEPT !.params = params])
                              ELSE @]
    /\ UNCHANGED <<svars, qvars, tvars, ncalls>>

NextRace ==
    \/ RaceStore
    \/ RaceLoad

SpecRace == InitRace /\ [][NextRace]_vars

(***************************************************************************)
(* midi_parse_file (midi/midi_parser.c), from the track chunk on           *)
(* (specification SpecParse).  data holds the bytes of the file that       *)
(* follow the track length, pos is the file position counted from there,   *)
(* track_end the length the chunk declares.  fread at the end of the file  *)
(* reads nothing and leaves its buffer as it was; a local that was never   *)
(* written holds any byte.                                                 *)
(***************************************************************************)

\* The longest track data.
MaxFileLen == 4

\* A delta time or data byte 0x00, a data byte 0x40, a byte with the
\* continuation bit 0x81, and the status byte 0x90 of a Note On.
FileBytes == {0, 64, 129, 144}

InitParse ==
    /\ InitStandby
    /\ unit \in {[kind |-> "parser", data |-> data, track_end |-> track_end,
                  pos |-> 0, pc |-> "loop", byte |-> 0, running_status |-> 0,
                  num_events |-> 0, ret |-> "none"] :
                 data \in UNION {[1..n -> FileBytes] : n \in 1..MaxFileLen},
                 track_end \in 0..(MaxFileLen + 1)}

\* while (ftell(fp) < track_end): another event, or fclose and the return
\* of MS_SUCCESS.  Entering read_variable_length, its local byte is not
\* initialized.
ParseLoop ==
    /\ unit.kind = "parser"
    /\ unit.pc = "loop"
    /\ IF unit.pos < unit.track_end
       THEN \E byte \in FileBytes :
               unit' = [unit EXCEPT !.pc = "delta", !.byte = byte]
       ELSE unit' = [unit EXCEPT !.pc = "returned", !.ret = "MS_SUCCESS"]
    /\ UNCHANGED <<svars, qvars, tvars, ncalls>>

\* read_variable_length: fread(&byte, 1, 1, fp), unchecked.
ParseDelta ==
    /\ unit.kind = "parser"
    /\ unit.pc = "delta"
    /\ unit' = IF unit.pos < Len(unit.data)
               THEN [unit EXCEPT !.byte = unit.data[unit.pos + 1],
                                 !.pos = @ + 1, !.pc = "delta_test"]
               ELSE [unit EXCEPT !.pc = "delta_test"]
    /\ UNCHANGED <<svars, qvars, tvars, ncalls>>

\* read_variable_length: while (byte & 0x80).
ParseDeltaTest ==
    /\ unit.kind = "parser"
    /\ unit.pc = "delta_test"
    /\ unit' = [unit EXCEPT !.pc = IF unit.byte >= 128 THEN "delta"
                                   ELSE "status"]
    /\ UNCHANGED <<svars, qvars, tvars, ncalls>>

\* The status byte (any byte when the read fails), the step back for a
\* running status, and the two data bytes of a Note On; no other event of
\* the bytes above reads data.  add_midi_event is counted up to one event
\* per byte of the file.
ParseEvent ==
    /\ unit.kind = "parser"
    /\ unit.pc = "status"
    /\ \E garbage \in FileBytes :
          LET atEnd == unit.pos >= Len(unit.data)
              read == IF atEnd THEN garbage ELSE unit.data[unit.pos + 1]
              after == IF atEnd THEN unit.pos ELSE unit.pos + 1
              running == read < 128
              status == IF running THEN unit.running_status ELSE read
              body == IF running THEN after - 1 ELSE after
              noteOn == status = 144
          IN  unit' = [unit EXCEPT
                         !.running_status = status,
                         !.pos = IF noteOn THEN Min(body + 2, Len(unit.data))
                                 ELSE body,
                         !.num_events = IF noteOn
                                        THEN Min(@ + 1, Len(unit.data))
                                        ELSE @,
                         !.pc = "loop"]
    /\ UNCHANGED <<svars, qvars, tvars, ncalls>>

NextParse ==
    \/ ParseLoop
    \/ ParseDelta
    \/ ParseDeltaTest
    \/ ParseEvent

\* The parser is sequential code that keeps running until it returns.
SpecParse == InitParse /\ [][NextParse]_vars /\ WF_vars(NextParse)

(***************************************************************************)
(* One voice driven on its own: voice_init and voice_trigger, then         *)
(* voice_process calls taken one frame of the loop at a time, and at most  *)
(* one voice_release between two calls.                                    *)
(***************************************************************************)

\* voice_process calls made on the voice.
MaxBlocks == 3

\* The longest block a voice_process call renders.
MaxBlockFrames == 3

\* The longest sample, in frames.
MaxSampleFrames == 3

BlockFrameCounts == 0..MaxBlockFrames

OutputChannels == {1, 2}

\* Mono samples with root note 60: not looping, looping from the first and
\* from the second frame with loop_end inside the sample or at its end,
\* loop enabled with loop_end <= loop_start, and looping from the last
\* frame or from the end of the data.
VoiceSamples ==
    {Sample([k \in 1..n |-> 4 * k], n, 1, 60, 0, 127, loop[1], loop[2], loop[3]) :
        n \in (MaxSampleFrames - 1)..MaxSampleFrames,
        loop \in {<<FALSE, 0, 0>>, <<TRUE, 0, MaxSampleFrames - 1>>,
                  <<TRUE, 1, MaxSampleFrames - 1>>, <<TRUE, 1, 1>>,
                  <<TRUE, MaxSampleFrames - 1, MaxSampleFrames>>}}

\* Notes an octave below, at and an octave above the root note.
VoiceNotes == {48, 60, 72}

VoiceVelocities == {100, 127}

VoiceEnvelopes ==
    {[attack_time |-> 0, decay_time |-> 0, sustain_level |-> ONE,
      release_time |-> 0],
     [attack_time |-> 1, decay_time |-> 0, sustain_level |-> ONE \div 2,
      release_time |-> 2]}

\* The voice belongs to a sampler created at one of two sample rates.
InitVoice ==
    /\ config \in [sample_rate : EnvRates, channels : Channels,
                   max_polyphony : {1}]
    /\ InitSampler
    /\ instruments = InitInstruments
    /\ unit \in {[kind |-> "voice",
                  voice |-> voice_trigger(voice_init(1), SampleRef(1, 1), sd,
                                          note, velocity, envelope),
                  sd |-> sd, channels |-> channels, out |-> <<>>,
                  running |-> FALSE, i |-> 0, num_frames |-> 0,
                  blocks |-> 0, mixed |-> 0, released |-> FALSE,
                  again |-> FALSE, rframes |-> 0, oob |-> FALSE] :
                 sd \in VoiceSamples, note \in VoiceNotes,
                 velocity \in VoiceVelocities,
                 envelope \in VoiceEnvelopes, channels \in OutputChannels}

\* voice_process up to the loop: the early return, or the entry into the
\* loop on a buffer the caller has cleared.
VoiceBegin ==
    /\ unit.kind = "voice"
    /\ ~unit.running
    /\ unit.blocks < MaxBlocks
    /\ \E num_frames \in BlockFrameCounts :
          unit' = IF ~unit.voice.active
                  THEN [unit EXCEPT !.blocks = @ + 1]
                  ELSE [unit EXCEPT !.blocks = @ + 1,
                                    !.running = TRUE,
                                    !.i = 0,
                                    !.num_frames = num_frames,
                                    !.out = Zeros(num_frames * unit.channels)]
    /\ UNCHANGED <<svars, qvars, tvars, ncalls>>

\* One iteration of the loop of voice_process; the local position is kept
\* in playback_position between two iterations.  A frame is mixed unless
\* the bounds check ended the loop, which leaves the envelope active.
VoiceFrame ==
    /\ unit.kind = "voice"
    /\ unit.running
    /\ unit.i < unit.num_frames
    /\ LET r == VoiceLoop(unit.voice, unit.sd, unit.out, unit.i, unit.i + 1,
                          unit.channels, unit.voice.playback_position, FALSE)
           stopped == ~r.voice.active /\ envelope_is_active(r.voice.envelope)
       IN  unit' = [unit EXCEPT
                      !.voice = r.voice,
                      !.out = r.out,
                      !.i = IF r.voice.active THEN @ + 1 ELSE @,
                      !.running = r.voice.active,
                      !.mixed = IF stopped THEN @ ELSE @ + 1,
                      !.rframes = IF stopped \/ ~unit.released THEN @
                                  ELSE @ + 1,
                      !.oob = @ \/ r.oob]
    /\ UNCHANGED <<svars, qvars, tvars, ncalls>>

\* The loop of voice_process ends with its last frame.
VoiceEnd ==
    /\ unit.kind = "voice"
    /\ unit.running
    /\ unit.i >= unit.num_frames
    /\ unit' = [unit EXCEPT !.running = FALSE]
    /\ UNCHANGED <<svars, qvars, tvars, ncalls>>

\* voice_release(voice), once, between two voice_process calls.
VoiceRelease ==
    /\ unit.kind = "voice"
    /\ ~unit.running
    /\ ~unit.released
    /\ unit.voice.active
    /\ unit' = [unit EXCEPT !.voice = voice_release(unit.voice),
                            !.released = TRUE]
    /\ UNCHANGED <<svars, qvars, tvars, ncalls>>

\* A second NoteOff for the note of the voice, applied by process_events
\* while the voice is active and in Release: voice_release once more.
VoiceReleaseAgain ==
    /\ unit.kind = "voice"
    /\ ~unit.running
    /\ unit.released
    /\ ~unit.again
    /\ unit.voice.active
    /\ unit' = [unit EXCEPT !.voice = voice_release(unit.voice),
                            !.again = TRUE]
    /\ UNCHANGED <<svars, qvars, tvars, ncalls>>

NextVoice ==
    \/ VoiceBegin
    \/ VoiceFrame
    \/ VoiceEnd
    \/ VoiceRelease
    \/ VoiceReleaseAgain

SpecVoice == InitVoice /\ [][NextVoice]_vars

(***************************************************************************)
(* One instrument driven on its own: ms_instrument_create, then loads from *)
(* memory and from files, and instrument_find_sample lookups.              *)
(***************************************************************************)

\* The capacity of samples[] (128 in internal_rt.h, scaled down).
MS_MAX_SAMPLES_PER_INSTRUMENT == 3

\* The metadata a load is given: any uint8_t root note and velocity range,
\* none of it validated.  One frame of mono data each.
LoadSamples ==
    {Sample(<<4>>, 1, 1, meta[1], meta[2], meta[3], FALSE, 0, 0) :
        meta \in {<<60, 0, 127>>, <<60, 0, 63>>, <<72, 64, 127>>,
                  <<255, 0, 127>>}}

\* Valid notes and velocities.
FindNotes == {0, 60, 127}

FindVelocities == {1, 64, 127}

\* A load that refuses only an instrument holding more than the capacity.
ms_instrument_load_sample_memory_late(samples, hasData, sample) ==
    IF ~hasData
    THEN [ret |-> "MS_ERROR_INVALID_PARAM", samples |-> samples]
    ELSE IF Len(samples) > MS_MAX_SAMPLES_PER_INSTRUMENT
    THEN [ret |-> "MS_ERROR_BUFFER_OVERFLOW", samples |-> samples]
    ELSE [ret |-> "MS_SUCCESS", samples |-> Append(samples, sample)]

\* ms_instrument_load_sample_memory(instrument, data, num_frames, channels,
\* metadata) on the instrument's samples[]; hasData is data != NULL.
ms_instrument_load_sample_memory(samples, hasData, sample) ==
    IF ~hasData
    THEN [ret |-> "MS_ERROR_INVALID_PARAM", samples |-> samples]
    ELSE IF Len(samples) >= MS_MAX_SAMPLES_PER_INSTRUMENT
    THEN [ret |-> "MS_ERROR_BUFFER_OVERFLOW", samples |-> samples]
    ELSE [ret |-> "MS_SUCCESS", samples |-> Append(samples, sample)]

\* ms_instrument_load_sample(instrument, filepath, metadata); err is what
\* load_wav_file returns and sample what it decoded.
ms_instrument_load_sample(samples, err, sample) ==
    IF Len(samples) >= MS_MAX_SAMPLES_PER_INSTRUMENT
    THEN [ret |-> "MS_ERROR_BUFFER_OVERFLOW", samples |-> samples]
    ELSE IF err # "MS_SUCCESS"
    THEN [ret |-> err, samples |-> samples]
    ELSE [ret |-> "MS_SUCCESS", samples |-> Append(samples, sample)]

InitInst ==
    /\ InitStandby
    /\ unit = [kind |-> "instrument", samples |-> <<>>,
               op |-> "ms_instrument_create", ret |-> "MS_SUCCESS",
               note |-> 0, velocity |-> 0, found |-> 0]

InstLoadMemory ==
    /\ unit.kind = "instrument"
    /\ \E hasData \in BOOLEAN, sample \in LoadSamples :
          LET r == ms_instrument_load_sample_memory(unit.samples, hasData,
                                                    sample)
          IN  unit' = [unit EXCEPT !.samples = r.samples,
                                   !.op = "ms_instrument_load_sample_memory",
                                   !.ret = r.ret]
    /\ UNCHANGED <<svars, qvars, tvars, ncalls>>

InstLoadFile ==
    /\ unit.kind = "instrument"
    /\ \E err \in {"MS_SUCCESS", "MS_ERROR_FILE_NOT_FOUND"},
          sample \in LoadSamples :
          LET r == ms_instrument_load_sample(unit.samples, err, sample)
          IN  unit' = [unit EXCEPT !.samples = r.samples,
                                   !.op = "ms_instrument_load_sample",
                                   !.ret = r.ret]
    /\ UNCHANGED <<svars, qvars, tvars, ncalls>>

\* instrument_find_sample(instrument, note, velocity); found is the index
\* of the sample returned, 0 for NULL.
InstFind ==
    /\ unit.kind = "instrument"
    /\ \E note \in FindNotes, velocity \in FindVelocities :
          unit' = [unit EXCEPT
                     !.op = "instrument_find_sample",
                     !.ret = "MS_SUCCESS",
                     !.note = note,
                     !.velocity = velocity,
                     !.found = instrument_find_sample(unit.samples, note,
                                                      velocity)]
    /\ UNCHANGED <<svars, qvars, tvars, ncalls>>

NextInst ==
    \/ InstLoadMemory
    \/ InstLoadFile
    \/ InstFind

SpecInst == InitInst /\ [][NextInst]_vars

(***************************************************************************)
(* MIDI file playback (sampler.c, the only implementation of               *)
(* ms_load_midi_file, ms_start_playback, ms_stop_playback and              *)
(* ms_is_playing): the playback fields of one sampler, no voice active.    *)
(***************************************************************************)

\* Frames rendered since playback_sample_count was last cleared.
MaxPlayFrames == 6

\* midi_event_t: a note-on or note-off at a timestamp.
MidiEvent(timestamp, type, note) ==
    [timestamp |-> timestamp, type |-> type, data1 |-> note, data2 |-> 100]

\* sampler->current_track == NULL
NoTrack == <<>>

\* What midi_parse_file may deliver: the events of a track, none of them
\* in an empty file.
Tracks ==
    {<<MidiEvent(0, "MIDI_NOTE_ON", 60)>>,
     <<MidiEvent(0, "MIDI_NOTE_ON", 60), MidiEvent(2, "MIDI_NOTE_OFF", 60)>>,
     <<MidiEvent(1, "MIDI_NOTE_ON", 72), MidiEvent(3, "MIDI_NOTE_OFF", 72)>>}

InitPlay ==
    /\ InitStandby
    /\ unit = [kind |-> "playback", current_track |-> NoTrack,
               playback_event_index |-> 0, playback_sample_count |-> 0,
               is_playing |-> FALSE, out |-> <<>>,
               op |-> "ms_sampler_create", ret |-> "MS_SUCCESS"]

\* ms_load_midi_file(sampler, instrument, filepath); err and track are what
\* midi_parse_file returns.
PlayLoad ==
    /\ unit.kind = "playback"
    /\ \E err \in {"MS_SUCCESS", "MS_ERROR_FILE_NOT_FOUND"}, track \in Tracks :
          unit' = IF err # "MS_SUCCESS"
                  THEN [unit EXCEPT !.current_track = NoTrack,
                                    !.op = "ms_load_midi_file",
                                    !.ret = err]
                  ELSE [unit EXCEPT !.current_track = track,
                                    !.playback_event_index = 0,
                                    !.playback_sample_count = 0,
                                    !.op = "ms_load_midi_file",
                                    !.ret = "MS_SUCCESS"]
    /\ UNCHANGED <<svars, qvars, tvars, ncalls>>

\* ms_start_playback(sampler)
PlayStart ==
    /\ unit.kind = "playback"
    /\ unit' = [unit EXCEPT !.is_playing = TRUE,
                            !.playback_event_index = 0,
                            !.playback_sample_count = 0,
                            !.op = "ms_start_playback",
                            !.ret = "MS_SUCCESS"]
    /\ UNCHANGED <<svars, qvars, tvars, ncalls>>

\* ms_stop_playback(sampler)
PlayStop ==
    /\ unit.kind = "playback"
    /\ unit' = [unit EXCEPT !.is_playing = FALSE,
                            !.op = "ms_stop_playback",
                            !.ret = "MS_SUCCESS"]
    /\ UNCHANGED <<svars, qvars, tvars, ncalls>>

\* ms_process(sampler, output, num_frames) of sampler.c with no active
\* voice: the buffer is cleared, the block for MIDI playback is empty, and
\* the sample count advances.
PlayProcess ==
    /\ unit.kind = "playback"
    /\ \E num_frames \in BlockFrameCounts :
          /\ unit.playback_sample_count + num_frames <= MaxPlayFrames
          /\ unit' = [unit EXCEPT
                        !.out = Zeros(num_frames * config.channels),
                        !.playback_sample_count = @ + num_frames,
                        !.op = "ms_process",
                        !.ret = "MS_SUCCESS"]
    /\ UNCHANGED <<svars, qvars, tvars, ncalls>>

NextPlay ==
    \/ PlayLoad
    \/ PlayStart
    \/ PlayStop
    \/ PlayProcess

SpecPlay == InitPlay /\ [][NextPlay]_vars

(***************************************************************************)
(* Properties.                                                             *)
(***************************************************************************)

IsPrefix(s, t) == Len(s) <= Len(t) /\ s = SubSeq(t, 1, Len(s))

\* A step of the control thread that ends a push with "queue full".
PushFails == ctl.pc = "load_read" /\ ctl'.pc = "idle"

\* A step of the control thread that passes the test of rt_queue_push.
PushProceeds == ctl.pc = "load_read" /\ ctl'.pc = "write_slot"

\* A step in which rt_queue_push tests the queue for fullness.
PushTests == PushFails \/ PushProceeds

\* A step of the render thread in which rt_queue_pop reports "no event".
PopReportsEmpty == rnd.pc = "pop_load_write" /\ rnd'.pc = "voices"

\* A step of the render thread that completes a pop and handles the event.
PopReturns == rnd.pc = "store_read" /\ rnd'.pc # "store_read"

(***************************************************************************)
(* C1.  One control thread pushing and one render thread popping, under    *)
(* every interleaving of their loads and stores: the events popped are, in *)
(* order and without repetition, the first events published (so no event   *)
(* is popped twice, out of order, or without having been pushed); a pop    *)
(* reports "no event" only when every event published so far has been      *)
(* popped; and the slot a push writes is never the slot a pop is reading.  *)
(***************************************************************************)
C1_SpscFifo ==
    /\ [](IsPrefix(popped, pushed))
    /\ [](~(ctl.pc = "write_slot" /\ rnd.pc = "read_slot"
            /\ ctl.write_idx = rnd.read_idx))
    /\ [][PopReportsEmpty => popped = pushed]_vars
    /\ [][PopReturns => /\ Len(popped) < Len(pushed)
                        /\ popped' = Append(popped, pushed[Len(popped) + 1])]_vars

\* The ring has wrapped: more events than it has slots went through it, and
\* they were not all the same event.
C1_Witness ==
    /\ Len(popped) > RT_EVENT_QUEUE_SIZE
    /\ \E k \in 1..Len(popped) : popped[k] # popped[1]

(***************************************************************************)
(* C2.  rt_queue_push fails exactly when (write_idx + 1) mod SIZE equals   *)
(* read_idx; a failing push changes no index and no slot; the queue never  *)
(* holds more than SIZE - 1 unconsumed events; with no pop at all, exactly *)
(* the first SIZE - 1 pushes succeed; both indices stay in 0..SIZE-1.      *)
(***************************************************************************)
C2_PushFullness ==
    /\ [](write_idx \in 0..(RT_EVENT_QUEUE_SIZE - 1))
    /\ [](read_idx \in 0..(RT_EVENT_QUEUE_SIZE - 1))
    /\ [](Len(pushed) - Len(popped) <= RT_EVENT_QUEUE_SIZE - 1)
    /\ [][PushTests =>
            /\ PushFails <=> (write_idx + 1) % RT_EVENT_QUEUE_SIZE = read_idx
            /\ PushFails => /\ UNCHANGED <<write_idx, read_idx, events>>
                            /\ last'.ret = "MS_ERROR_BUFFER_OVERFLOW"
            /\ (popped = <<>> /\ read_idx = 0) =>
                  (PushFails <=> Len(pushed) = RT_EVENT_QUEUE_SIZE - 1)]_vars

\* With no pop so far, SIZE - 1 pushes have succeeded and one has failed.
C2_Witness ==
    /\ popped = <<>>
    /\ Len(pushed) = RT_EVENT_QUEUE_SIZE - 1
    /\ ctl.pc = "idle"
    /\ last.ret = "MS_ERROR_BUFFER_OVERFLOW"

(***************************************************************************)
(* C3.  A step of ms_note_on / ms_note_off changes no voice, and nothing   *)
(* of the sampler but the queue: its only effects are the write of the     *)
(* slot at write_idx and then the advance of write_idx past that slot; a   *)
(* call returns MS_SUCCESS only by publishing its event.                   *)
(***************************************************************************)
C3_NoteCallsOnlyEnqueue ==
    [][ctl' # ctl =>
        /\ UNCHANGED <<voices, read_idx, config, instruments,
                       frames_processed, output>>
        /\ events' # events =>
              /\ ctl.pc = "write_slot"
              /\ write_idx' = write_idx
              /\ events'[write_idx] = ctl.event
              /\ \A k \in 0..(RT_EVENT_QUEUE_SIZE - 1) :
                    k # write_idx => events'[k] = events[k]
        /\ write_idx' # write_idx =>
              /\ ctl.pc = "store_write"
              /\ events' = events
              /\ events[write_idx] = ctl.event
              /\ write_idx' = (write_idx + 1) % RT_EVENT_QUEUE_SIZE
        /\ (last' # last /\ last'.ret = "MS_SUCCESS") =>
              write_idx' # write_idx]_vars

\* A note call has returned MS_SUCCESS while a voice is sounding and while
\* the render thread is in the middle of a pop.
C3_Witness ==
    /\ ctl.pc = "idle"
    /\ last.op \in {"ms_note_on", "ms_note_off"}
    /\ last.ret = "MS_SUCCESS"
    /\ \E j \in 0..(MS_MAX_VOICES - 1) : voices[j].active
    /\ rnd.pc = "read_slot"

\* A step that is a call of ms_note_on or ms_note_off on an instrument.
IsNoteCall ==
    /\ ncalls' = ncalls + 1
    /\ last'.op \in {"ms_note_on", "ms_note_off"}
    /\ last'.ret # "MS_ERROR_INVALID_PARAM"

\* A step that is a call of ms_process with an output buffer.
IsRender ==
    /\ ncalls' = ncalls + 1
    /\ last'.op = "ms_process"
    /\ last'.ret # "MS_ERROR_INVALID_PARAM"

(***************************************************************************)
(* C4.  A note call made when the queue holds SIZE - 1 events returns      *)
(* MS_ERROR_BUFFER_OVERFLOW and leaves the queue as it was; a note call    *)
(* made when it holds fewer returns MS_SUCCESS and appends its event; no   *)
(* other control call touches the queue; and ms_process pops exactly the   *)
(* events the queue holds, oldest first, leaves it empty and returns       *)
(* MS_SUCCESS.                                                             *)
(***************************************************************************)
C4_OverflowDropsEvent ==
    [][/\ IsNoteCall =>
            IF QueueLength = RT_EVENT_QUEUE_SIZE - 1
            THEN /\ last'.ret = "MS_ERROR_BUFFER_OVERFLOW"
                 /\ UNCHANGED <<write_idx, read_idx, events, voices>>
            ELSE /\ last'.ret = "MS_SUCCESS"
                 /\ Len(QueueContents') = Len(QueueContents) + 1
                 /\ SubSeq(QueueContents', 1, Len(QueueContents))
                       = QueueContents
                 /\ QueueContents'[Len(QueueContents')].note \in Notes
                 /\ QueueContents'[Len(QueueContents')].instrument \in InstIds
       /\ IsRender =>
            /\ last'.ret = "MS_SUCCESS"
            /\ applied' = QueueContents
            /\ QueueContents' = <<>>
       /\ (~IsNoteCall /\ ~IsRender) => QueueContents' = QueueContents]_vars

\* A note call has just been refused on a full queue, and the caller can
\* still call ms_process.
C4_Witness ==
    /\ last.op \in {"ms_note_on", "ms_note_off"}
    /\ last.ret = "MS_ERROR_BUFFER_OVERFLOW"
    /\ QueueLength = RT_EVENT_QUEUE_SIZE - 1
    /\ ncalls < MaxCalls

HoldsDistinctNoteOns(n) ==
    /\ Len(QueueContents) = n
    /\ \A k \in 1..n :
          /\ QueueContents[k].event_type = 0
          /\ QueueContents[k].instrument # NULL
          /\ instruments[QueueContents[k].instrument].alive
          /\ instrument_find_sample(
                 instruments[QueueContents[k].instrument].samples,
                 QueueContents[k].note, QueueContents[k].velocity) # 0
    /\ \A k, m \in 1..n :
          k # m => QueueContents[k].note # QueueContents[m].note

(***************************************************************************)
(* C6.  With all voices idle, a render call that processes maxPolyphony+1  *)
(* NoteOn events for distinct notes leaves exactly maxPolyphony voices     *)
(* active, slot 0 holding the last-issued note and slots                   *)
(* 1..maxPolyphony-1 holding the 2nd..maxPolyphony-th notes.               *)
(***************************************************************************)
C6_StealTakesSlotZero ==
    [][(/\ IsRender
        /\ \A j \in 0..(MS_MAX_VOICES - 1) : ~voices[j].active
        /\ HoldsDistinctNoteOns(config.max_polyphony + 1)) =>
          /\ Cardinality({j \in 0..(MS_MAX_VOICES - 1) : voices'[j].active})
                = config.max_polyphony
          /\ voices'[0].note = QueueContents[config.max_polyphony + 1].note
          /\ \A k \in 1..(config.max_polyphony - 1) :
                voices'[k].note = QueueContents[k + 1].note]_vars

(***************************************************************************)
(* C7.  The number of voices of the pool whose active flag is set is never *)
(* more than min(maxPolyphony, MS_MAX_VOICES), for every configured        *)
(* maxPolyphony, 0 and values above MS_MAX_VOICES included.                *)
(***************************************************************************)
C7_ActiveVoicesBounded ==
    Cardinality({j \in 0..(MS_MAX_VOICES - 1) : voices[j].active})
        <= (IF config.max_polyphony < MS_MAX_VOICES
            THEN config.max_polyphony ELSE MS_MAX_VOICES)

(***************************************************************************)
(* C8.  Processing a NoteOff(note, instrument) event puts into Release     *)
(* every voice that is active, holds that note and is bound to that        *)
(* instrument, and leaves the envelope stage of every other voice          *)
(* unchanged.  (Stated on render calls of zero frames that pop exactly one *)
(* NoteOff, so that nothing but the event acts on the voices.)             *)
(***************************************************************************)
C8_NoteOffReleasesMatching ==
    [][(/\ IsRender
        /\ frames_processed' = frames_processed
        /\ Len(QueueContents) = 1
        /\ QueueContents[1].event_type = 1) =>
          \A j \in 0..(MS_MAX_VOICES - 1) :
             IF /\ voices[j].active
                /\ voices[j].note = QueueContents[1].note
                /\ voices[j].instrument = QueueContents[1].instrument
             THEN voices'[j].envelope.stage = "RELEASE"
             ELSE voices'[j].envelope.stage = voices[j].envelope.stage]_vars

(***************************************************************************)
(* C9.  Once ms_instrument_destroy(instrument) has returned, no voice is   *)
(* active while bound to that instrument or to one of its samples, and no  *)
(* render call has read the instrument or its samples after the free.      *)
(***************************************************************************)
C9_DestroyDetachesVoices ==
    /\ ~uaf
    /\ \A i \in InstIds : \A j \in 0..(MS_MAX_VOICES - 1) :
          (~instruments[i].alive /\ voices[j].active) =>
              /\ voices[j].instrument # i
              /\ voices[j].sample.inst # i

(***************************************************************************)
(* C10.  After ms_pitch_bend(instrument, value) every active voice bound   *)
(* to that instrument has playback speed freq(note) / freq(root note)      *)
(* times the multiplier of the new bend value; the active voices bound to  *)
(* other instruments keep their speed.                                     *)
(***************************************************************************)
C10_PitchBendRetunesVoices ==
    [][\A inst \in InstIds, value \in BendValues :
          (ncalls' = ncalls + 1 /\ ms_pitch_bend(inst, value)) =>
             \A j \in 0..(MS_MAX_VOICES - 1) :
                (voices'[j].active /\ voices'[j].sample # NullSample) =>
                   IF voices'[j].instrument = inst
                   THEN voices'[j].playback_speed =
                          PlaybackSpeed(
                             voices'[j].note,
                             instruments[voices'[j].sample.inst]
                                .samples[voices'[j].sample.idx].meta.root_note,
                             PitchBendMultiplier(
                                value, instruments[inst].pitch_bend_range))
                   ELSE voices'[j].playback_speed = voices[j].playback_speed]_vars

(***************************************************************************)
(* C11.  A successful ms_note_on called with a non-NULL voice_id pointer   *)
(* stores through it the identifier of the voice slot that plays the note: *)
(* it stores something, and when no other event is waiting and the note    *)
(* resolves a sample, what it stores is the identifier of the slot the     *)
(* next render call gives the note.                                        *)
(***************************************************************************)
C11_NoteOnStoresVoiceId ==
    [][\A inst \in InstIds, note \in Notes, velocity \in Velocities :
          (/\ ncalls' = ncalls + 1
           /\ ms_note_on(inst, note, velocity, TRUE)
           /\ last'.ret = "MS_SUCCESS") =>
             /\ last'.stored
             /\ (/\ QueueLength = 0
                 /\ instrument_find_sample(instruments[inst].samples, note,
                                           velocity) # 0) =>
                   last'.voice_id = voices[AvailableVoice(voices)].voice_id]_vars

\* A step that is a call of ms_all_notes_off.
IsAllNotesOff == ncalls' = ncalls + 1 /\ last'.op = "ms_all_notes_off"

(***************************************************************************)
(* C12.  When ms_all_notes_off returns no voice is active; and a render    *)
(* call that comes next, with no note-on issued in between, leaves no      *)
(* voice active and an all-zero block: a note-on accepted before the       *)
(* all-notes-off and not yet rendered does not start sounding.             *)
(***************************************************************************)
C12_AllNotesOffSilences ==
    [][/\ IsAllNotesOff =>
             \A j \in 0..(MS_MAX_VOICES - 1) : ~voices'[j].active
       /\ (last.op = "ms_all_notes_off" /\ IsRender) =>
             /\ \A j \in 0..(MS_MAX_VOICES - 1) : ~voices'[j].active
             /\ \A k \in 1..Len(output') : output'[k] = 0]_vars

\* A step that is a call of ms_process, whatever its arguments.
IsProcessCall == ncalls' = ncalls + 1 /\ last'.op = "ms_process"

(***************************************************************************)
(* C13.  ms_process returns MS_ERROR_INVALID_PARAM exactly when it is      *)
(* called with a NULL argument, and then changes nothing: no output        *)
(* sample, no queue index or slot, no voice, not the frames-processed      *)
(* counter.  Called with valid arguments it returns MS_SUCCESS.            *)
(***************************************************************************)
C13_ProcessRejectsNull ==
    [][IsProcessCall =>
        /\ last'.ret \in {"MS_ERROR_INVALID_PARAM", "MS_SUCCESS"}
        /\ last'.ret = "MS_ERROR_INVALID_PARAM" =>
              /\ UNCHANGED <<output, voices, write_idx, read_idx, events,
                             frames_processed, applied, uaf, instruments,
                             config>>
              /\ ~\E num_frames \in FrameCounts, stale \in BOOLEAN :
                     ms_process(TRUE, num_frames, stale)
        /\ last'.ret = "MS_SUCCESS" =>
              ~\E num_frames \in FrameCounts, stale \in BOOLEAN :
                  ms_process(FALSE, num_frames, stale)]_vars

\* A call with a NULL output has just returned while an event was waiting
\* and a voice was sounding.
C13_Witness ==
    /\ last.op = "ms_process"
    /\ last.ret = "MS_ERROR_INVALID_PARAM"
    /\ QueueLength > 0
    /\ \E j \in 0..(MS_MAX_VOICES - 1) :
          voices[j].active /\ voices[j].envelope.stage = "ATTACK"

\* A step of the render thread that runs the voice loop of ms_process.
MixesVoices == rnd.pc = "voices" /\ rnd'.pc = "idle"

\* What voice j alone adds to a zeroed block of the current length.
Contribution(j) ==
    voice_process(voices[j],
                  instruments[voices[j].sample.inst].samples[voices[j].sample.idx],
                  [k \in 1..(rnd.num_frames * config.channels) |-> 0],
                  rnd.num_frames, config.channels).out

RECURSIVE SumOfContributions(_, _)
\* The sum, at output index k, of what the voices in slots below j add.
SumOfContributions(j, k) ==
    IF j = 0 THEN 0
    ELSE SumOfContributions(j - 1, k)
         + (IF voices[j - 1].active /\ voices[j - 1].sample # NullSample
            THEN Contribution(j - 1)[k] ELSE 0)

DrainPcs == {"pop_load_read", "pop_load_write", "read_slot", "store_read"}

\* The number of steps the loop of process_events may still take.
DrainRank ==
    IF rnd.pc \in DrainPcs
    THEN (RT_EVENT_QUEUE_SIZE - rnd.i) * Cardinality(DrainPcs)
         + (CASE rnd.pc = "pop_load_read" -> 4
              [] rnd.pc = "pop_load_write" -> 3
              [] rnd.pc = "read_slot" -> 2
              [] rnd.pc = "store_read" -> 1)
    ELSE 0

(***************************************************************************)
(* C15.  One ms_process call pops at most RT_EVENT_QUEUE_SIZE events, and  *)
(* its drain loop terminates whatever the control thread pushes meanwhile: *)
(* every step of the loop lowers a non-negative rank that starts at        *)
(* 4 * RT_EVENT_QUEUE_SIZE + 4 and that no step of the control thread      *)
(* changes.                                                                *)
(***************************************************************************)
C15_DrainBounded ==
    /\ [](rnd.i <= RT_EVENT_QUEUE_SIZE)
    /\ [](Len(applied) <= RT_EVENT_QUEUE_SIZE)
    /\ [](DrainRank >= 0)
    /\ [][(rnd.pc \in DrainPcs /\ rnd' # rnd) => DrainRank' < DrainRank]_vars
    /\ [][rnd' = rnd => DrainRank' = DrainRank]_vars

\* The loop has stopped at its bound although events are still waiting:
\* the control thread refilled the queue while it was being drained.
C15_Witness ==
    /\ rnd.pc = "voices"
    /\ rnd.i = RT_EVENT_QUEUE_SIZE
    /\ Len(applied) = RT_EVENT_QUEUE_SIZE
    /\ QueueLength > 0

(***************************************************************************)
(* C16.  The frames-processed counter never decreases; a call of           *)
(* ms_process that returns MS_SUCCESS adds exactly the number of frames of *)
(* the block it rendered; no other step changes the counter.               *)
(***************************************************************************)
C16_FramesProcessedCounts ==
    [][/\ frames_processed' >= frames_processed
       /\ IF IsProcessCall /\ last'.ret = "MS_SUCCESS"
          THEN /\ frames_processed' - frames_processed \in FrameCounts
               /\ Len(output') =
                     (frames_processed' - frames_processed) * config.channels
          ELSE frames_processed' = frames_processed]_vars

\* Two blocks that were not empty have been rendered, and the last call was
\* a control call or a rejected render call.
C16_Witness ==
    /\ frames_processed >= 4
    /\ last.ret # "MS_SUCCESS" \/ last.op # "ms_process"

(***************************************************************************)
(* C17.  The slot a NoteOn triggers, were it idle, used before or stolen   *)
(* while sounding, has an envelope whose next process() returns exactly 0: *)
(* the envelope is in Attack at level 0 with no sample counted, whatever   *)
(* stage and level it had before.                                          *)
(***************************************************************************)
C17_TriggerStartsAtZero ==
    [][(/\ PopReturns
        /\ rnd.event.event_type = 0
        /\ instrument_find_sample(instruments[rnd.event.instrument].samples,
                                  rnd.event.note, rnd.event.velocity) # 0) =>
          LET env == voices'[AvailableVoice(voices)].envelope
          IN  /\ env.stage = "ATTACK"
              /\ envelope_output(env) = 0
              /\ env.current_level = 0
              /\ env.samples_processed = 0]_vars

\* Every slot was sounding above level 0 when one more NoteOn took slot 0
\* over: slot 0 is back at level 0, the others are not.
C17_Witness ==
    /\ config.max_polyphony = MS_MAX_VOICES
    /\ Len(popped) = MS_MAX_VOICES + 1
    /\ \A k \in 1..Len(popped) : popped[k].event_type = 0
    /\ frames_processed > 0
    /\ voices[0].active
    /\ voices[0].envelope.current_level = 0
    /\ voices[0].envelope.stage = "ATTACK"
    /\ \A j \in 1..(MS_MAX_VOICES - 1) :
          voices[j].active /\ voices[j].envelope.current_level > 0

\* max(1, floor(release_time * sample_rate)) of the envelope driven alone.
ReleaseSamples ==
    LET n == (unit.env.params.release_time * unit.env.sample_rate) \div TIME_DEN
    IN  IF n > 1 THEN n ELSE 1

(***************************************************************************)
(* C18.  After release() from Attack, Decay or Sustain, with no further    *)
(* trigger() or release(), the envelope becomes Idle after at least        *)
(* releaseSamples - 1 and at most releaseSamples + 1 process() calls,      *)
(* where releaseSamples = max(1, floor(releaseTime * sampleRate)); once    *)
(* Idle it stays Idle and process() returns 0.                             *)
(***************************************************************************)
C18_ReleaseReachesIdle ==
    (unit.kind = "envelope" /\ unit.released) =>
       /\ unit.env.stage \in {"RELEASE", "IDLE"}
       /\ unit.idle_after # 0 =>
             /\ unit.idle_after >= ReleaseSamples - 1
             /\ unit.idle_after <= ReleaseSamples + 1
       /\ unit.calls >= ReleaseSamples + 1 => unit.env.stage = "IDLE"
       /\ unit.env.stage = "IDLE" <=> unit.idle_after # 0
       /\ (unit.idle_after # 0 /\ unit.calls > unit.idle_after) => unit.out = 0

\* Released in Decay with a release of at least two samples, the envelope
\* has become Idle and has been processed again since.
C18_Witness ==
    /\ unit.kind = "envelope"
    /\ unit.released
    /\ unit.from = "DECAY"
    /\ ReleaseSamples >= 2
    /\ unit.idle_after # 0
    /\ unit.calls > unit.idle_after

\* A frame of the voice driven alone starts: one iteration of the loop.
IsVoiceFrame == unit.kind = "voice" /\ unit.running /\ unit.i < unit.num_frames

\* position >= max_frames at the start of a frame.
AtSampleEnd == unit.voice.playback_position >= unit.sd.num_frames * SPEED_ONE

\* loop_enabled && loop_end > loop_start
LoopUsable ==
    unit.sd.meta.loop_enabled /\ unit.sd.meta.loop_end > unit.sd.meta.loop_start

CeilDiv(a, b) == (a + b - 1) \div b

\* ceil(numFrames / s) for the voice driven alone.
FramesToPlay ==
    CeilDiv(unit.sd.num_frames * SPEED_ONE, unit.voice.playback_speed)

(***************************************************************************)
(* C20.  A voice triggered on a non-looping sample with playback speed     *)
(* s > 0 and never released contributes to exactly ceil(numFrames / s)     *)
(* output frames, never to more and, once inactive, to no fewer, and is    *)
(* inactive from the render call in which its position reaches numFrames:  *)
(* whenever a render call has returned and the voice has contributed its   *)
(* ceil(numFrames / s) frames, the voice is inactive.                      *)
(***************************************************************************)
C20_NonLoopingVoiceEnds ==
    (/\ unit.kind = "voice"
     /\ ~unit.sd.meta.loop_enabled
     /\ ~unit.released
     /\ unit.voice.playback_speed > 0) =>
        /\ unit.mixed <= FramesToPlay
        /\ ~unit.voice.active => unit.mixed = FramesToPlay
        /\ (~unit.running /\ unit.mixed = FramesToPlay) => ~unit.voice.active

\* The voice driven alone plays at speed 1.0 with velocity 127 through an
\* envelope with attack and decay time 0 and sustain level 1.0, unreleased.
PlaysVerbatim ==
    /\ unit.kind = "voice"
    /\ unit.sd.channels = 1
    /\ unit.voice.playback_speed = SPEED_ONE
    /\ unit.voice.velocity = 127
    /\ unit.voice.envelope.params.attack_time = 0
    /\ unit.voice.envelope.params.decay_time = 0
    /\ unit.voice.envelope.params.sustain_level = ONE
    /\ ~unit.released

(***************************************************************************)
(* C21.  Round trip: a mono sample played at its root note (speed 1.0)     *)
(* with velocity 127 and an envelope of sustain level 1.0 with attack and  *)
(* decay time 0 produces output frame k equal to input sample k for every  *)
(* k < numFrames, with zero error.  Frame j of the current block is frame  *)
(* mixed - i + j of the voice; values are over SPEED_ONE * ONE * 127.      *)
(***************************************************************************)
C21_RoundTrip ==
    PlaysVerbatim =>
       \A j \in 0..(unit.i - 1) :
          LET k == unit.mixed - unit.i + j
          IN  (k >= 0 /\ k < unit.sd.num_frames) =>
                 unit.out[j * unit.channels + 1] =
                    unit.sd.data[k + 1] * SPEED_ONE * ONE * 127

\* C21 as the code has it: output frame k equals input sample k for every
\* k with 1 <= k < numFrames, on every output channel, and output frame 0
\* is 0, the level process() returns on the first Attack sample.
C21_RoundTripAfterFirstFrame ==
    PlaysVerbatim =>
       \A j \in 0..(unit.i - 1), c \in 1..unit.channels :
          LET k == unit.mixed - unit.i + j
          IN  /\ (k >= 1 /\ k < unit.sd.num_frames) =>
                    unit.out[j * unit.channels + c] =
                       unit.sd.data[k + 1] * SPEED_ONE * ONE * 127
              /\ k = 0 => unit.out[j * unit.channels + c] = 0

\* A three-frame sample has been played verbatim to its end in one stereo
\* block.
C21_Witness ==
    /\ PlaysVerbatim
    /\ unit.sd.num_frames = 3
    /\ unit.channels = 2
    /\ unit.i = 3
    /\ unit.mixed = 3
    /\ unit.out[5] = unit.sd.data[3] * SPEED_ONE * ONE * 127

\* A lookup has just been made on the instrument driven alone.
Looked == unit.kind = "instrument" /\ unit.op = "instrument_find_sample"

\* The samples of the instrument whose velocity range contains the velocity
\* looked up.
VelocityMatches ==
    {i \in 1..Len(unit.samples) :
        /\ unit.velocity >= unit.samples[i].meta.velocity_low
        /\ unit.velocity <= unit.samples[i].meta.velocity_high}

\* |note - rootNote| of sample i for the note looked up.
NoteDistance(i) == Abs(unit.note - unit.samples[i].meta.root_note)

(***************************************************************************)
(* C22.  For all valid (note, velocity): if at least one sample's velocity *)
(* range contains velocity, findSample returns one of the velocity-        *)
(* matching samples whose |note - rootNote| is minimal among the velocity- *)
(* matching samples; if no range contains velocity, it returns a sample    *)
(* whose |note - rootNote| is minimal over all samples of the instrument.  *)
(***************************************************************************)
C22_FindPrefersVelocityMatch ==
    (Looked /\ Len(unit.samples) > 0) =>
        LET among == IF VelocityMatches # {} THEN VelocityMatches
                     ELSE 1..Len(unit.samples)
        IN  /\ unit.found \in among
            /\ \A i \in among : NoteDistance(unit.found) <= NoteDistance(i)

(***************************************************************************)
(* C23.  findSample returns 'no match' only when the instrument owns zero  *)
(* samples: with at least one sample accepted by a load, every valid       *)
(* (note, velocity) finds a sample.                                        *)
(***************************************************************************)
C23_NoMatchOnlyWhenEmpty ==
    Looked => (unit.found = 0 <=> Len(unit.samples) = 0)

\* A load call has just returned on the instrument driven alone.
IsLoad ==
    /\ unit.kind = "instrument"
    /\ unit'.op \in {"ms_instrument_load_sample",
                     "ms_instrument_load_sample_memory"}

(***************************************************************************)
(* C24.  Loading a sample (from file or memory, with valid arguments) into *)
(* an instrument that already holds MS_MAX_SAMPLES_PER_INSTRUMENT samples  *)
(* returns MS_ERROR_BUFFER_OVERFLOW and leaves the sample list and count   *)
(* unchanged; the count never exceeds the capacity; each successful load   *)
(* appends exactly one sample at the end, keeping the earlier samples in   *)
(* insertion order; a failed load changes nothing.                         *)
(***************************************************************************)
C24_LoadAtCapacityOverflows ==
    [][IsLoad =>
         /\ (/\ Len(unit.samples) >= MS_MAX_SAMPLES_PER_INSTRUMENT
             /\ unit'.ret # "MS_ERROR_INVALID_PARAM") =>
               unit'.ret = "MS_ERROR_BUFFER_OVERFLOW"
         /\ unit'.ret = "MS_ERROR_BUFFER_OVERFLOW" =>
               Len(unit.samples) = MS_MAX_SAMPLES_PER_INSTRUMENT
         /\ unit'.ret = "MS_SUCCESS" =>
               /\ Len(unit'.samples) = Len(unit.samples) + 1
               /\ SubSeq(unit'.samples, 1, Len(unit.samples)) = unit.samples
               /\ unit'.samples[Len(unit'.samples)] \in LoadSamples
         /\ unit'.ret # "MS_SUCCESS" => unit'.samples = unit.samples
         /\ Len(unit'.samples) <= MS_MAX_SAMPLES_PER_INSTRUMENT
    ]_vars

\* A load from memory and a load from a file have been refused for lack of
\* room: the instrument is full and the last load overflowed.
C24_Witness ==
    /\ unit.kind = "instrument"
    /\ unit.op = "ms_instrument_load_sample"
    /\ unit.ret = "MS_ERROR_BUFFER_OVERFLOW"
    /\ Len(unit.samples) = MS_MAX_SAMPLES_PER_INSTRUMENT
    /\ unit.samples[1] # unit.samples[MS_MAX_SAMPLES_PER_INSTRUMENT]

(***************************************************************************)
(* C25.  After ms_load_midi_file and ms_start_playback, repeated           *)
(* ms_process calls dispatch the loaded track's note events as the         *)
(* playback position reaches their timestamps (playback_event_index        *)
(* advances through the track), and ms_is_playing returns false once all   *)
(* events of the track have been played.  Stated on the states ms_process  *)
(* returns in: every event whose timestamp the position has passed has     *)
(* been dispatched, and playback is over when the position has passed the  *)
(* last event.                                                             *)
(***************************************************************************)
C25_PlaybackDispatchesTrack ==
    (/\ unit.kind = "playback"
     /\ unit.op = "ms_process"
     /\ unit.current_track # NoTrack) =>
        LET track == unit.current_track
            due == {k \in 1..Len(track) :
                      track[k].timestamp < unit.playback_sample_count}
        IN  /\ unit.is_playing =>
                 \A k \in due : unit.playback_event_index >= k
            /\ due = 1..Len(track) => ~unit.is_playing

(***************************************************************************)
(* C26.  If no event is pushed while ms_process runs, the queue is empty   *)
(* (read_idx == write_idx) when ms_process returns: every event accepted   *)
(* before the call has been applied during that call, in the order of      *)
(* acceptance, and none is left for a later block.                         *)
(***************************************************************************)
C26_ProcessEmptiesQueue ==
    [][IsRender =>
         /\ read_idx' = write_idx'
         /\ write_idx' = write_idx
         /\ applied' = QueueContents]_vars

\* A render call has just returned that found the queue full and applied
\* all its events.
C26_Witness ==
    /\ last.op = "ms_process"
    /\ last.ret = "MS_SUCCESS"
    /\ Len(applied) = RT_EVENT_QUEUE_SIZE - 1
    /\ read_idx = write_idx

\* The pending events are a NoteOn that finds a sample of a live
\* instrument, alone or followed by the NoteOff for its note and instrument.
NoteOnBatch ==
    /\ QueueLength \in {1, 2}
    /\ QueueContents[1].event_type = 0
    /\ instruments[QueueContents[1].instrument].alive
    /\ instrument_find_sample(instruments[QueueContents[1].instrument].samples,
                              QueueContents[1].note,
                              QueueContents[1].velocity) # 0
    /\ QueueLength = 2 =>
          /\ QueueContents[2].event_type = 1
          /\ QueueContents[2].note = QueueContents[1].note
          /\ QueueContents[2].instrument = QueueContents[1].instrument

\* The voice of the NoteOn of such a batch after a block of n frames, when
\* the whole batch is applied before the voice is mixed.
BatchVoice(n) ==
    LET event == QueueContents[1]
        inst == event.instrument
        idx == instrument_find_sample(instruments[inst].samples, event.note,
                                      event.velocity)
        sd == instruments[inst].samples[idx]
        triggered == [voice_trigger(voices[AvailableVoice(voices)],
                                    SampleRef(inst, idx), sd, event.note,
                                    event.velocity, instruments[inst].envelope)
                      EXCEPT !.instrument = inst]
        start == IF QueueLength = 1 THEN triggered
                 ELSE voice_release(triggered)
    IN  voice_process(start, sd, Zeros(n * config.channels), n,
                      config.channels).voice

(***************************************************************************)
(* C27.  Within one ms_process call all events pending at the start of the *)
(* call are applied, in queue order, before any voice is mixed: a voice    *)
(* triggered by a pending NoteOn plays from frame 0 of that same block     *)
(* (after the call it is what the whole block makes of the triggered       *)
(* voice), and a NoteOn followed by a NoteOff for the same note and        *)
(* instrument in the same batch leaves the voice in Release before it has  *)
(* produced any frame (it is what the block makes of the released voice).  *)
(***************************************************************************)
C27_EventsBeforeMixing ==
    [][IsRender =>
         /\ applied' = QueueContents
         /\ NoteOnBatch =>
               /\ voices'[AvailableVoice(voices)] =
                     BatchVoice(frames_processed' - frames_processed)
               /\ QueueLength = 2 =>
                     voices'[AvailableVoice(voices)].envelope.stage
                        \in {"RELEASE", "IDLE"}]_vars

\* The notes of the NoteOn events waiting in the queue.
PendingNoteOns ==
    {QueueContents[k].note :
        k \in {i \in 1..QueueLength : QueueContents[i].event_type = 0}}

(***************************************************************************)
(* C28.  A voice that has become inactive contributes nothing to any later *)
(* output block and stays inactive until a NoteOn event is processed that  *)
(* allocates its slot: an inactive voice becomes active only in a render   *)
(* call that applies a pending NoteOn, and then plays that NoteOn's note;  *)
(* no other step (a call of the control API, a render call with only       *)
(* NoteOffs or nothing pending) changes an inactive voice at all; and a    *)
(* block rendered with every voice inactive and no NoteOn pending is       *)
(* silent.                                                                 *)
(***************************************************************************)
C28_InactiveUntilNoteOn ==
    [][/\ \A j \in VoiceIdx :
            ~voices[j].active =>
               IF IsRender /\ PendingNoteOns # {}
               THEN voices'[j] # voices[j] =>
                       voices'[j].note \in PendingNoteOns
               ELSE voices'[j] = voices[j]
       /\ (IsRender /\ PendingNoteOns = {} /\ ActiveVoices = {}) =>
             \A k \in 1..Len(output') : output'[k] = 0]_vars

\* A voice that has played is inactive, and the render call that has just
\* returned found nothing to apply and left a silent block that is not
\* empty.
C28_Witness ==
    /\ last.op = "ms_process"
    /\ last.ret = "MS_SUCCESS"
    /\ applied = <<>>
    /\ Len(output) > 0
    /\ ActiveVoices = {}
    /\ \E j \in VoiceIdx : voices[j].sample # NullSample


(***************************************************************************)
(* The order of the envelope stages and the range of the level.            *)
(***************************************************************************)

IsEnvTrigger == unit'.retriggered /\ ~unit.retriggered

IsEnvRelease == unit'.released /\ ~unit.released

IsEnvProcess == unit'.before + unit'.calls = unit.before + unit.calls + 1

\* The moves of envelope_process between a trigger and the release.
HeldMoves ==
    {<<"ATTACK", "ATTACK">>, <<"ATTACK", "DECAY">>, <<"DECAY", "DECAY">>,
     <<"DECAY", "SUSTAIN">>, <<"SUSTAIN", "SUSTAIN">>}

\* The moves of envelope_process after the release.
ReleasedMoves ==
    {<<"RELEASE", "RELEASE">>, <<"RELEASE", "IDLE">>, <<"IDLE", "IDLE">>}

\* C29: between its trigger and its release the envelope only moves
\* Attack -> Decay -> Sustain, never backwards, never past Decay and never
\* to Idle, and stays in Sustain, where envelope_process returns the sustain
\* level (a level of [0, 1], as the data model has it); after the release
\* it only moves Release -> Idle; it leaves Idle only through a trigger,
\* which puts it in Attack.
C29_StageOrder ==
    [][unit.kind = "envelope" =>
         LET move == <<unit.env.stage, unit'.env.stage>>
             sustain == unit.env.params.sustain_level
         IN  /\ IsEnvTrigger => unit'.env.stage = "ATTACK"
             /\ IsEnvRelease => unit'.env.stage = "RELEASE"
             /\ (IsEnvProcess /\ ~unit.released) => move \in HeldMoves
             /\ (IsEnvProcess /\ unit.released) => move \in ReleasedMoves
             /\ (IsEnvProcess /\ unit.env.stage = "SUSTAIN"
                              /\ sustain \in 0..ONE) =>
                    unit'.out = sustain
             /\ (unit.env.stage = "IDLE" /\ unit'.env.stage # "IDLE") =>
                    IsEnvTrigger]_vars

\* A second trigger's envelope with no decay samples holds in Sustain and
\* has returned its sustain level.
C29_Witness ==
    /\ unit.kind = "envelope"
    /\ unit.retriggered
    /\ ~unit.released
    /\ unit.env.stage = "SUSTAIN"
    /\ unit.env.params.decay_time = 0
    /\ unit.env.params.sustain_level = ONE \div 2
    /\ unit.out = ONE \div 2
    /\ unit.before = MaxEnvCalls

\* C30: after every envelope_process call the stored level and the value
\* returned are within [0, 1], in every stage and for every envelope the
\* instrument accepts.
C30_LevelWithinUnit ==
    unit.kind = "envelope" =>
       /\ unit.env.current_level >= 0
       /\ unit.env.current_level <= ONE
       /\ unit.out >= 0
       /\ unit.out <= ONE



(***************************************************************************)
(* The release ramp.                                                       *)
(***************************************************************************)

\* The envelope is in Release with a sustain level of [0, 1]; k of its n
\* release samples are done.
InRelease ==
    /\ unit.kind = "envelope"
    /\ unit.released
    /\ unit.env.stage = "RELEASE"
    /\ unit.env.params.sustain_level \in 0..ONE

\* C31: during Release the level goes down by sustainLevel / releaseSamples
\* per envelope_process call, a step taken from the configured sustain level
\* and not from the level at the release.  Released in Sustain the level is
\* 0 exactly when Release ends (where the step divides the sustain level
\* without remainder); released above the sustain level it is still positive
\* on the last Release frame and is 0 only in Idle; released below it the
\* ramp crosses 0 before Release ends and the level is held at 0.
C31_ReleaseRamp ==
    /\ InRelease =>
          LET env == unit.env
              sustain == env.params.sustain_level
              k == env.samples_processed
              n == env.stage_samples
              step == sustain \div n
              ramp == unit.level0 - k * step
          IN  /\ env.release_coeff = step
              /\ k <= n
              /\ env.current_level = (IF ramp < 0 THEN 0 ELSE ramp)
              /\ (unit.from = "SUSTAIN" /\ step * n = sustain) =>
                     /\ unit.level0 = sustain
                     /\ k = n => env.current_level = 0
                     /\ (k < n /\ sustain > 0) => env.current_level > 0
              /\ (unit.level0 > sustain /\ k = n) => env.current_level > 0
              /\ (unit.level0 < sustain /\ k = n) =>
                     /\ env.current_level = 0
                     /\ unit.level0 - n * step <= 0
    /\ (unit.kind = "envelope" /\ unit.released /\ unit.env.stage = "IDLE") =>
          unit.env.current_level = 0

\* Released in Decay above the sustain level: the last Release frame still
\* has a positive level.
C31_Witness ==
    /\ InRelease
    /\ unit.from = "DECAY"
    /\ unit.level0 > unit.env.params.sustain_level
    /\ unit.env.params.sustain_level > 0
    /\ unit.env.stage_samples > 1
    /\ unit.env.samples_processed = unit.env.stage_samples
    /\ unit.env.current_level > 0



(***************************************************************************)
(* Active voices.                                                          *)
(***************************************************************************)

\* C32: between operations every active voice has an envelope stage other
\* than Idle and a sample bound to it; so a voice whose envelope reached
\* Idle during a render call is inactive when the call returns.
C32_ActiveVoiceSounds ==
    \A j \in VoiceIdx :
       voices[j].active =>
          /\ voices[j].envelope.stage \in
                 {"ATTACK", "DECAY", "SUSTAIN", "RELEASE"}
          /\ voices[j].sample # NullSample

\* A render call has taken a released voice's envelope to Idle and left the
\* voice inactive.
C32_Witness ==
    /\ last.op = "ms_process"
    /\ \E j \in VoiceIdx :
          /\ ~voices[j].active
          /\ voices[j].sample # NullSample
          /\ voices[j].envelope.stage = "IDLE"
          /\ voices[j].envelope.samples_processed =
                 voices[j].envelope.stage_samples
          /\ voices[j].envelope.stage_samples > 0



(***************************************************************************)
(* Reads of the sample data.                                               *)
(***************************************************************************)

\* C33: every index voice_process reads is smaller than num_frames * channels
\* of the bound sample, whatever sample and metadata the loads accepted.
C33_ReadsWithinData == unit.kind = "voice" => ~unit.oob



(***************************************************************************)
(* The sample rate of a voice's envelope.                                  *)
(***************************************************************************)

\* C34: the envelope stages of a triggered voice last floor(time *
\* config.sample_rate) frames, for every configured sample rate (a stage
\* of no samples is entered with one sample by envelope_trigger and
\* envelope_release).
C34_StageLengthsFromConfig ==
    (unit.kind = "voice" /\ unit.voice.active) =>
       LET env == unit.voice.envelope
           n(time) == SampleCount(time, config.sample_rate)
       IN  /\ env.stage = "ATTACK" =>
                  env.stage_samples = IF n(env.params.attack_time) = 0 THEN 1
                                      ELSE n(env.params.attack_time)
           /\ env.stage = "DECAY" =>
                  env.stage_samples = n(env.params.decay_time)
           /\ env.stage = "RELEASE" =>
                  env.stage_samples = IF n(env.params.release_time) = 0 THEN 1
                                      ELSE n(env.params.release_time)



(***************************************************************************)
(* The playback speed of a new voice.                                      *)
(***************************************************************************)

\* C35: a voice triggered by a render call plays at freq(note) /
\* freq(root_note) times the multiplier of the current pitch bend of the
\* instrument it is bound to, whatever was bent before in its pool slot.
C35_SpeedFollowsInstrumentBend ==
    [][IsRender =>
         \A j \in VoiceIdx :
            (~voices[j].active /\ voices'[j].active) =>
               LET v == voices'[j]
                   inst == instruments[v.instrument]
                   sd == instruments[v.sample.inst].samples[v.sample.idx]
               IN  v.playback_speed =
                      PlaybackSpeed(v.note, sd.meta.root_note,
                                    PitchBendMultiplier(
                                        inst.current_pitch_bend,
                                        inst.pitch_bend_range))]_vars



(***************************************************************************)
(* NoteOff on a voice that is already in Release.                          *)
(***************************************************************************)

\* C36: a voice in Release is not prolonged by further NoteOffs for its
\* note: it is inactive within releaseSamples + 1 rendered frames of the
\* first NoteOff (releaseSamples as the envelope counts them, at least 1),
\* so while it is active at most releaseSamples frames have been rendered
\* since.
C36_SecondNoteOffDoesNotProlong ==
    (unit.kind = "voice" /\ unit.released) =>
       /\ unit.rframes <= unit.voice.envelope.stage_samples + 1
       /\ unit.voice.active =>
              unit.rframes <= unit.voice.envelope.stage_samples



(***************************************************************************)
(* Two control threads.                                                    *)
(***************************************************************************)

\* The number of times e occurs in the sequence s.
Count(e, s) == Cardinality({k \in DOMAIN s : s[k] = e})

\* C37: with two control threads calling ms_note_on / ms_note_off on one
\* sampler, every call that returned MS_SUCCESS has its event delivered
\* exactly once: the events popped and those still queued are, event for
\* event, the events accepted.
C37_AcceptedDeliveredOnce ==
    unit.kind = "producer" =>
       LET held == popped \o QueueContents
       IN  /\ Len(held) = Len(pushed)
           /\ \A k \in DOMAIN held : Count(held[k], held) = Count(held[k], pushed)
           /\ \A k \in DOMAIN pushed :
                  Count(pushed[k], held) = Count(pushed[k], pushed)



(***************************************************************************)
(* Envelope parameters changed during a trigger.                           *)
(***************************************************************************)

\* C38: when ms_instrument_set_envelope runs while the render thread
\* triggers a voice of the instrument, the voice's envelope is the one of
\* the complete old parameter set or of the complete new one.
C38_EnvelopeOldOrNew ==
    (unit.kind = "race" /\ unit.loaded = 2 * Len(EnvFields)) =>
       unit.env \in
          {envelope_trigger(envelope_init(ENV_SAMPLE_RATE, unit.old)),
           envelope_trigger(envelope_init(ENV_SAMPLE_RATE, unit.new))}



(***************************************************************************)
(* The real-time envelope against the baseline envelope.                   *)
(***************************************************************************)

\* C39: for the same parameters, sample rate and calls, the real-time
\* envelope and the baseline envelope are in the same stage after every
\* call and return the same level from every envelope_process call.
C39_EnvelopesAgree ==
    unit.kind = "envelope" =>
       /\ unit.core.stage = unit.env.stage
       /\ unit.core_out = unit.out



(***************************************************************************)
(* Termination of the MIDI parser.                                         *)
(***************************************************************************)

\* C40: midi_parse_file terminates and returns a result code, whatever the
\* file holds.
C40_ParseReturns == <>(unit.kind = "parser" /\ unit.pc = "returned")


=============================================================================
